---- MODULE Spec2Model ----
(***************************************************************************)
(* The agent orchestration loop of backend-python-agent (agent_loop.py),   *)
(* its tool-call parser (tool_parser.py), its memory client                *)
(* (memory_client.py) and its plan endpoint (main.py); and the memory      *)
(* service of backend-python-memory (memory_service.py, main.py): the      *)
(* Chroma knowledge bases, the Mind-KB playbooks and the SQLite sessions.  *)
(*                                                                         *)
(* Text is a sequence of atoms (TLA+ strings): a character or a literal    *)
(* chunk.  Concatenation is \o, so prefixes and suffixes are real.         *)
(* Python/JSON values are records tagged by "ty":                          *)
(*   None / null  [ty |-> "null"]                                          *)
(*   str          [ty |-> "str",  v |-> text]                              *)
(*   number       [ty |-> "num",  v |-> its decimal literal (one atom)]    *)
(*   list         [ty |-> "list", v |-> sequence of values]                *)
(*   dict         [ty |-> "dict", v |-> sequence of [key, val] in          *)
(*                 insertion order]                                        *)
(***************************************************************************)
EXTENDS Integers, Sequences, FiniteSets, Bags, TLC

VARIABLES
  loop,       \* the AgentLoop instance: [tool_executor, max_turns]
  run,        \* the locals of the run_agent call in progress, and what it called
  parse_in,   \* the text handed to parse_tool_call
  parse_out,  \* what parse_tool_call returned for it (Pending before the call)
  plan_request,   \* the create_agent_plan request in progress (agent main.py)
  chroma,         \* the Chroma store: collection name -> sequence of documents
  backend,        \* what the Chroma client offers: [has_upsert, duplicate_add]
  playbook_calls, \* the /memory/playbook requests answered so far, in order
  playbook_requests, \* the /memory/playbook requests in progress (a bag)
  rag_call,       \* the last rag_retrieve call: its arguments and its matches
  sessions,       \* the rows of the SQLite table `sessions`, in insertion order
  history_calls,  \* the get_session_history calls in progress, one per worker
  store_calls,    \* the /memory/store requests served so far, in order
  render,         \* the last summarize_history_for_mind_kb call and its text
  health,         \* the last health probe: what was reachable, what it answered
  runs            \* the run_agent calls that share the AgentLoop, by caller

memory_vars ==
  <<chroma, backend, playbook_calls, playbook_requests, rag_call, sessions,
    history_calls, store_calls>>

vars ==
  <<loop, run, parse_in, parse_out, plan_request, memory_vars, render, health,
    runs>>

\* The memory service before anything is stored, and no plan request.
NoStore == [name \in {} |-> <<>>]

NoBackend == [has_upsert |-> TRUE, duplicate_add |-> "raise"]

NoCall == [pc |-> "idle"]

MemoryIdle ==
  /\ chroma = NoStore
  /\ backend = NoBackend
  /\ playbook_calls = <<>>
  /\ playbook_requests = EmptyBag
  /\ rag_call = NoCall
  /\ sessions = <<>>
  /\ history_calls = <<>>
  /\ store_calls = <<>>

AgentIdle ==
  /\ plan_request = NoCall
  /\ render = NoCall
  /\ health = NoCall
  /\ runs = <<>>

----------------------------------------------------------------------------
(* Python values *)

None == [ty |-> "null"]
JStr(s) == [ty |-> "str", v |-> s]
JNum(a) == [ty |-> "num", v |-> a]
JList(xs) == [ty |-> "list", v |-> xs]
JDict(kvs) == [ty |-> "dict", v |-> kvs]
KV(k, x) == [key |-> k, val |-> x]

isinstance_dict(x) == x.ty = "dict"
isinstance_str(x) == x.ty = "str"
isinstance_list(x) == x.ty = "list"

\* dict.get(key, default): the value of the last pair with that key.
RECURSIVE dict_get_from(_, _, _, _)
dict_get_from(kvs, key, default, i) ==
  IF i = 0 THEN default
  ELSE IF kvs[i].key = key THEN kvs[i].val
  ELSE dict_get_from(kvs, key, default, i - 1)

dict_get(d, key, default) == dict_get_from(d.v, key, default, Len(d.v))

\* Python truthiness of the values the code tests with `not x` / `x or y`.
truthy(x) ==
  CASE x.ty = "null" -> FALSE
    [] x.ty = "str" -> Len(x.v) > 0
    [] x.ty = "num" -> x.v # "0"
    [] x.ty = "list" -> Len(x.v) > 0
    [] x.ty = "dict" -> Len(x.v) > 0
    [] OTHER -> TRUE

\* x or y
py_or(x, y) == IF truthy(x) THEN x ELSE y

----------------------------------------------------------------------------
(* str.strip(): leading and trailing whitespace removed *)

Whitespace == {" ", "\t", "\n", "\r"}

RECURSIVE lstrip(_)
lstrip(s) ==
  IF s # <<>> /\ Head(s) \in Whitespace THEN lstrip(Tail(s)) ELSE s

RECURSIVE rstrip(_)
rstrip(s) ==
  IF s # <<>> /\ s[Len(s)] \in Whitespace
  THEN rstrip(SubSeq(s, 1, Len(s) - 1))
  ELSE s

strip_left_only(s) == lstrip(s)

strip(s) == rstrip(lstrip(s))

----------------------------------------------------------------------------
(* json.dumps with Python's default separators ", " and ": " *)

RECURSIVE json_dumps(_)
json_dumps(x) ==
  CASE x.ty = "null" -> <<"null">>
    [] x.ty = "num" -> <<x.v>>
    [] x.ty = "str" -> <<"\"">> \o x.v \o <<"\"">>
    [] x.ty = "list" ->
         LET items[i \in 0..Len(x.v)] ==
               IF i = 0 THEN <<>>
               ELSE items[i - 1]
                    \o (IF i > 1 THEN <<", ">> ELSE <<>>)
                    \o json_dumps(x.v[i])
         IN <<"[">> \o items[Len(x.v)] \o <<"]">>
    [] x.ty = "dict" ->
         LET items[i \in 0..Len(x.v)] ==
               IF i = 0 THEN <<>>
               ELSE items[i - 1]
                    \o (IF i > 1 THEN <<", ">> ELSE <<>>)
                    \o <<"\"">> \o x.v[i].key \o <<"\"", ": ">>
                    \o json_dumps(x.v[i].val)
         IN <<"{">> \o items[Len(x.v)] \o <<"}">>

----------------------------------------------------------------------------
(* json.loads: a recursive-descent parse of the atoms.  A result is        *)
(* [ok, val, next]; ok = FALSE is json.JSONDecodeError.                    *)

NumAtoms == {"0", "1", "2", "3"}
Commas == {",", ", "}
Colons == {":", ": "}

DecodeError == [ok |-> FALSE, val |-> None, next |-> 0]
Decoded(x, n) == [ok |-> TRUE, val |-> x, next |-> n]

Tok(toks, i) == IF i >= 1 /\ i <= Len(toks) THEN toks[i] ELSE "<eof>"

\* The index of the quote closing the string opened before position i, or 0.
RECURSIVE closing_quote(_, _)
closing_quote(toks, i) ==
  IF i > Len(toks) THEN 0
  ELSE IF toks[i] = "\"" THEN i
  ELSE closing_quote(toks, i + 1)

parse_string(toks, i) ==
  LET j == closing_quote(toks, i + 1) IN
  IF Tok(toks, i) # "\"" \/ j = 0 THEN DecodeError
  ELSE Decoded(JStr(SubSeq(toks, i + 1, j - 1)), j + 1)

RECURSIVE parse_value(_, _)
RECURSIVE parse_elements(_, _, _)
RECURSIVE parse_members(_, _, _)

parse_value(toks, i) ==
  LET t == Tok(toks, i) IN
  CASE t = "null" -> Decoded(None, i + 1)
    [] t \in NumAtoms -> Decoded(JNum(t), i + 1)
    [] t = "\"" -> parse_string(toks, i)
    [] t = "[" ->
         IF Tok(toks, i + 1) = "]" THEN Decoded(JList(<<>>), i + 2)
         ELSE parse_elements(toks, i + 1, <<>>)
    [] t = "{" ->
         IF Tok(toks, i + 1) = "}" THEN Decoded(JDict(<<>>), i + 2)
         ELSE parse_members(toks, i + 1, <<>>)
    [] OTHER -> DecodeError

parse_elements(toks, i, acc) ==
  LET r == parse_value(toks, i) IN
  IF ~r.ok THEN DecodeError
  ELSE LET t == Tok(toks, r.next)
           acc2 == Append(acc, r.val)
       IN IF t \in Commas THEN parse_elements(toks, r.next + 1, acc2)
          ELSE IF t = "]" THEN Decoded(JList(acc2), r.next + 1)
          ELSE DecodeError

parse_members(toks, i, acc) ==
  LET k == parse_string(toks, i) IN
  IF ~k.ok \/ Tok(toks, k.next) \notin Colons THEN DecodeError
  ELSE LET r == parse_value(toks, k.next + 1) IN
       IF ~r.ok THEN DecodeError
       ELSE LET t == Tok(toks, r.next)
                acc2 == Append(acc, KV(k.val.v, r.val))
            IN IF t \in Commas THEN parse_members(toks, r.next + 1, acc2)
               ELSE IF t = "}" THEN Decoded(JDict(acc2), r.next + 1)
               ELSE DecodeError

\* The whole text must be one value ("Extra data" is a decode error too).
json_loads(text) ==
  LET r == parse_value(text, 1) IN
  IF r.ok /\ r.next = Len(text) + 1 THEN r ELSE DecodeError

----------------------------------------------------------------------------
(* tool_parser.parse_tool_call *)

ToolCall(name, args) == [ty |-> "call", name |-> name, args |-> args]

parse_shape_accepts_blank(data, obj_key, args_key) ==
  LET obj == dict_get(data, <<obj_key>>, None) IN
  IF ~isinstance_dict(obj) THEN None
  ELSE LET name == dict_get(obj, <<"name">>, None)
           args0 == dict_get(obj, <<args_key>>, None)
       IN IF isinstance_str(name)
          THEN LET args == IF args0 = None THEN JDict(<<>>) ELSE args0 IN
               IF isinstance_dict(args) THEN ToolCall(strip(name.v), args)
               ELSE None
          ELSE None

\* One wire shape tried on the root object: `obj_key` holds the tool
\* object and `args_key` its arguments.  None when the shape is rejected.
parse_shape(data, obj_key, args_key) ==
  LET obj == dict_get(data, <<obj_key>>, None) IN
  IF ~isinstance_dict(obj) THEN None
  ELSE LET name == dict_get(obj, <<"name">>, None)
           args0 == dict_get(obj, <<args_key>>, None)
       IN IF isinstance_str(name) /\ strip(name.v) # <<>>
          THEN LET args == IF args0 = None THEN JDict(<<>>) ELSE args0 IN
               IF isinstance_dict(args) THEN ToolCall(strip(name.v), args)
               ELSE None
          ELSE None

parse_format1(data) == parse_shape(data, "tool", "args")

parse_format2_args_key(data) == parse_shape(data, "tool_call", "args")

parse_format2(data) == parse_shape(data, "tool_call", "arguments")

parse_tool_call_legacy_first(llm_plan_json) ==
  IF llm_plan_json = <<>> THEN None
  ELSE LET r == json_loads(llm_plan_json) IN
       IF ~r.ok THEN None
       ELSE IF ~isinstance_dict(r.val) THEN None
       ELSE IF parse_format2(r.val) # None THEN parse_format2(r.val)
       ELSE parse_format1(r.val)

parse_tool_call(llm_plan_json) ==
  IF llm_plan_json = <<>> THEN None
  ELSE LET r == json_loads(llm_plan_json) IN
       IF ~r.ok THEN None
       ELSE IF ~isinstance_dict(r.val) THEN None
       ELSE IF parse_format1(r.val) # None THEN parse_format1(r.val)
       ELSE parse_format2(r.val)

----------------------------------------------------------------------------
(* memory_client.get_session_history: the HTTP exchange is the input.      *)
(* http = [failed, body]: failed covers a connection error, a timeout, an  *)
(* HTTP error status and a body that is not JSON; body is resp.json().     *)

get_session_history(http) ==
  IF http.failed THEN JList(<<>>)
  ELSE LET data == http.body
           messages == IF isinstance_dict(data)
                       THEN dict_get(data, <<"messages">>, JList(<<>>))
                       ELSE JList(<<>>)
       IN IF isinstance_list(messages) THEN messages ELSE JList(<<>>)

----------------------------------------------------------------------------
(* tool_executor.execute_tool: the HTTP exchange with the sandbox is the   *)
(* input.  http = [primary, fallback, body, json_error]: each of primary   *)
(* and fallback is what the POST to that route did; body is resp.json();   *)
(* json_error is the class resp.json() raises for a body that is not JSON, *)
(* which the installed requests library decides: a JSONDecodeError that is *)
(* a RequestException (requests 2.27 and later) or a plain ValueError      *)
(* (before).  No version is pinned, so both are outcomes.                  *)

HttpOk == "200"
HttpNotFound == "404"
HttpNoConnection == "connection_error"

RequestsJSONDecodeError == "requests.exceptions.JSONDecodeError"
PlainValueError == "ValueError"

sandbox_error(kind, details) ==
  JDict(<<KV(<<"error">>, JStr(<<kind>>)),
          KV(<<"details">>, JStr(<<details>>)),
          KV(<<"url">>, JStr(<<"http://localhost:8004/execute-tool">>))>>)

execute_tool(http) ==
  LET resp == IF http.primary = HttpNotFound THEN http.fallback ELSE http.primary IN
  IF resp # HttpOk
  THEN sandbox_error("rust_sandbox_connection_error", resp)
  ELSE IF ~http.body.ok
  THEN IF http.json_error = RequestsJSONDecodeError
       THEN sandbox_error("rust_sandbox_connection_error", "Expecting value")
       ELSE sandbox_error("rust_sandbox_invalid_json", "Expecting value")
  ELSE http.body.val

----------------------------------------------------------------------------
(* agent_loop.AgentLoop *)

NoExecutor == "None"              \* AgentLoop(tool_executor=None)
SandboxExecutor == "execute_tool" \* main.py: execute_tool_handler
CallableExecutor == "callable"    \* any other callable handed to AgentLoop

\* AgentLoop.__init__
AgentLoop(tool_executor, max_turns) ==
  [tool_executor |-> tool_executor, max_turns |-> max_turns]

PlanTurn(turn, prompt, llm_response) ==
  [turn |-> turn, type |-> "llm_plan", prompt |-> prompt,
   llm_response |-> llm_response]

ToolResultTurn_of_next_turn(turn, tool_name, args, tool_result) ==
  [turn |-> turn + 1, type |-> "tool_result", tool_name |-> tool_name,
   args |-> args, tool_result |-> tool_result]

ToolResultTurn(turn, tool_name, args, tool_result) ==
  [turn |-> turn, type |-> "tool_result", tool_name |-> tool_name,
   args |-> args, tool_result |-> tool_result]

no_tool_executor_error ==
  JDict(<<KV(<<"error">>, JStr(<<"no_tool_executor">>)),
          KV(<<"details">>,
             JStr(<<"AgentLoop was not initialized with a tool executor.">>))>>)

SessionUnknown == JStr(<<"session-unknown">>)

resolve_session_id_request_first(context) ==
  py_or(py_or(dict_get(context, <<"request_id">>, None),
              dict_get(context, <<"session_id">>, None)),
        SessionUnknown)

\* context.get("session_id") or context.get("request_id") or "session-unknown"
resolve_session_id(context) ==
  py_or(py_or(dict_get(context, <<"session_id">>, None),
              dict_get(context, <<"request_id">>, None)),
        SessionUnknown)

history_preamble(session_id, history_messages) ==
  <<"<history session_id='">> \o session_id.v \o <<"'>\n">>
  \o json_dumps(history_messages)
  \o <<"\n</history>\n\n">>

tool_response_block(tool_name, tool_result) ==
  <<"\n\n<tool_response tool='">> \o tool_name \o <<"'>\n">>
  \o json_dumps(tool_result)
  \o <<"\n</tool_response>">>

llm_response_of_no_details(outcome) ==
  IF outcome.kind = "ok" THEN outcome.resp
  ELSE JDict(<<KV(<<"error">>, JStr(<<"plan_failed">>))>>)

\* The except clauses around get_llm_plan.  outcome = [kind, resp, code,
\* cls, details]: kind "ok" returns resp, "AioRpcError" and "Exception" raise.
llm_response_of(outcome) ==
  CASE outcome.kind = "ok" -> outcome.resp
    [] outcome.kind = "AioRpcError" ->
         JDict(<<KV(<<"error">>, JStr(<<"grpc_error">>)),
                 KV(<<"code">>, JStr(<<outcome.code>>)),
                 KV(<<"details">>, JStr(<<outcome.details>>))>>)
    [] OTHER ->
         JDict(<<KV(<<"error">>, JStr(<<outcome.cls>>)),
                 KV(<<"details">>, JStr(<<outcome.details>>))>>)

\* llm_response.get("plan", "{}")
plan_text(llm_response) ==
  dict_get(llm_response, <<"plan">>, JStr(<<"{", "}">>)).v

\* The locals of a run_agent call, its position (pc), its return value and
\* the calls it has made to its collaborators (plan_calls, tool_calls,
\* history_calls).
IdleRun ==
  [pc |-> "idle",
   arg_prompt |-> <<>>, context |-> JDict(<<>>),
   prompt |-> <<>>, session_id |-> None,
   history |-> <<>>, llm_response |-> JDict(<<>>),
   current_prompt |-> <<>>, history_messages |-> None,
   turn |-> 0, tool_call |-> None,
   result |-> None, exception |-> "",
   plan_calls |-> <<>>, tool_calls |-> <<>>, history_calls |-> <<>>]

turns_executed(history) == Len(history)

\* The return statement.
return_result(lp, r) ==
  [r EXCEPT
     !.pc = "returned",
     !.result =
       [agent |-> [turns_executed |-> turns_executed(r.history),
                   max_turns |-> lp.max_turns],
        plan |-> [prompt |-> r.prompt,
                  llm_plan |-> dict_get(r.llm_response, <<"plan">>, None)],
        llm_response |-> r.llm_response,
        history |-> r.history,
        session_id |-> r.session_id]]

\* for turn in range(self._max_turns): whether `turn` is one of its values.
range_has(turn, max_turns) == turn < max_turns

continue_loop_refetches(lp, r) ==
  IF range_has(r.turn + 1, lp.max_turns)
  THEN [r EXCEPT !.turn = r.turn + 1, !.pc = "fetch"]
  ELSE return_result(lp, r)

\* `continue`: the next value of the for loop, or the end of the loop.
continue_loop(lp, r) ==
  IF range_has(r.turn + 1, lp.max_turns)
  THEN [r EXCEPT !.turn = r.turn + 1, !.pc = "plan"]
  ELSE return_result(lp, r)

\* From the call of run_agent to its first collaborator call.
begin_run(lp, prompt, context) ==
  LET r == [IdleRun EXCEPT
              !.arg_prompt = prompt, !.context = context,
              !.prompt = prompt,
              !.session_id = resolve_session_id(context),
              !.history = <<>>, !.llm_response = JDict(<<>>),
              !.current_prompt = prompt, !.turn = 0]
  IN IF range_has(0, lp.max_turns) THEN [r EXCEPT !.pc = "fetch"]
     ELSE return_result(lp, r)

\* turn == 0: the history fetch has answered.
after_history(lp, r, http) ==
  LET history_messages == get_session_history(http) IN
  [r EXCEPT
     !.history_calls = Append(@, r.session_id),
     !.history_messages = history_messages,
     !.current_prompt = history_preamble(r.session_id, history_messages) \o r.prompt,
     !.pc = "plan"]

after_plan_no_break(lp, r, outcome) ==
  LET llm_response == llm_response_of(outcome)
      r1 == [r EXCEPT
               !.plan_calls = Append(@, [prompt |-> r.current_prompt,
                                         outcome |-> outcome]),
               !.llm_response = llm_response,
               !.history = Append(@, PlanTurn(r.turn, r.current_prompt, llm_response))]
      tool_call == parse_tool_call(plan_text(llm_response))
  IN IF tool_call # None
     THEN IF lp.tool_executor = NoExecutor
          THEN return_result(lp,
                 [r1 EXCEPT !.history =
                    Append(@, ToolResultTurn(r.turn, tool_call.name, tool_call.args,
                                             no_tool_executor_error))])
          ELSE [r1 EXCEPT !.tool_call = tool_call, !.pc = "tool"]
     ELSE continue_loop(lp, r1)

\* get_llm_plan has answered (or raised): up to the tool call or the return.
after_plan(lp, r, outcome) ==
  LET llm_response == llm_response_of(outcome)
      r1 == [r EXCEPT
               !.plan_calls = Append(@, [prompt |-> r.current_prompt,
                                         outcome |-> outcome]),
               !.llm_response = llm_response,
               !.history = Append(@, PlanTurn(r.turn, r.current_prompt, llm_response))]
      tool_call == parse_tool_call(plan_text(llm_response))
  IN IF tool_call # None
     THEN IF lp.tool_executor = NoExecutor
          THEN return_result(lp,
                 [r1 EXCEPT !.history =
                    Append(@, ToolResultTurn(r.turn, tool_call.name, tool_call.args,
                                             no_tool_executor_error))])
          ELSE [r1 EXCEPT !.tool_call = tool_call, !.pc = "tool"]
     ELSE return_result(lp, r1)

after_tool_error_is_terminal(lp, r, tool_result) ==
  LET tool_name == r.tool_call.name
      args == r.tool_call.args
      r1 == [r EXCEPT
               !.tool_calls = Append(@, [tool_name |-> tool_name, args |-> args,
                                         raised |-> FALSE,
                                         tool_result |-> tool_result]),
               !.history = Append(@, ToolResultTurn(r.turn, tool_name, args, tool_result)),
               !.current_prompt = @ \o tool_response_block(tool_name, tool_result),
               !.tool_call = None]
  IN IF isinstance_dict(tool_result) /\ dict_get(tool_result, <<"error">>, None) # None
     THEN return_result(lp, r1)
     ELSE continue_loop(lp, r1)

after_tool_rebuilds_prompt(lp, r, tool_result) ==
  LET tool_name == r.tool_call.name
      args == r.tool_call.args
      r1 == [r EXCEPT
               !.tool_calls = Append(@, [tool_name |-> tool_name, args |-> args,
                                         raised |-> FALSE,
                                         tool_result |-> tool_result]),
               !.history = Append(@, ToolResultTurn(r.turn, tool_name, args, tool_result)),
               !.current_prompt = r.prompt \o tool_response_block(tool_name, tool_result),
               !.tool_call = None]
  IN continue_loop(lp, r1)

\* The tool executor has returned tool_result.
after_tool(lp, r, tool_result) ==
  LET tool_name == r.tool_call.name
      args == r.tool_call.args
      r1 == [r EXCEPT
               !.tool_calls = Append(@, [tool_name |-> tool_name, args |-> args,
                                         raised |-> FALSE,
                                         tool_result |-> tool_result]),
               !.history = Append(@, ToolResultTurn(r.turn, tool_name, args, tool_result)),
               !.current_prompt = @ \o tool_response_block(tool_name, tool_result),
               !.tool_call = None]
  IN continue_loop(lp, r1)

\* The tool executor has raised: nothing in run_agent catches it.
tool_raised(lp, r, cls) ==
  [r EXCEPT
     !.tool_calls = Append(@, [tool_name |-> r.tool_call.name,
                               args |-> r.tool_call.args,
                               raised |-> TRUE,
                               tool_result |-> None]),
     !.exception = cls,
     !.pc = "raised"]

----------------------------------------------------------------------------
(* The inputs: constructor arguments, run_agent arguments and what the     *)
(* collaborators answer.                                                   *)

MaxTurns == 3

Executors == {NoExecutor, SandboxExecutor, CallableExecutor}

Prompts == {<<"plan", " ", "X">>}

\* A context with each key left out (Absent) or set to a string.
Absent == [ty |-> "absent"]

context_of(sid, rid) ==
  JDict((IF sid = Absent THEN <<>> ELSE <<KV(<<"session_id">>, sid)>>)
        \o (IF rid = Absent THEN <<>> ELSE <<KV(<<"request_id">>, rid)>>))

Contexts ==
  {context_of(Absent, Absent),
   context_of(JStr(<<"s1">>), Absent),
   context_of(Absent, JStr(<<"r1">>)),
   context_of(JStr(<<"s1">>), JStr(<<"r1">>)),
   context_of(JStr(<<>>), JStr(<<"r1">>)),
   context_of(JStr(<<>>), JStr(<<>>))}

StoredMessage ==
  JDict(<<KV(<<"turn">>, JNum("0")), KV(<<"type">>, JStr(<<"llm_plan">>))>>)

MemoryAnswers ==
  {[failed |-> TRUE, body |-> None],
   [failed |-> FALSE, body |-> JList(<<>>)],
   [failed |-> FALSE, body |-> JDict(<<KV(<<"messages">>, None)>>)],
   [failed |-> FALSE,
    body |-> JDict(<<KV(<<"session_id">>, JStr(<<"s1">>)),
                     KV(<<"messages">>, JList(<<>>))>>)],
   [failed |-> FALSE,
    body |-> JDict(<<KV(<<"session_id">>, JStr(<<"s1">>)),
                     KV(<<"messages">>, JList(<<StoredMessage>>))>>)]}

PlannerPlan ==
  json_dumps(JDict(<<KV(<<"tool">>,
     JDict(<<KV(<<"name">>, JStr(<<"n">>)),
             KV(<<"args">>, JDict(<<KV(<<"a">>, JNum("1"))>>))>>))>>))

LegacyPlan ==
  json_dumps(JDict(<<KV(<<"tool_call">>,
     JDict(<<KV(<<"name">>, JStr(<<" ", "m", " ">>)),
             KV(<<"arguments">>, None)>>))>>))

PlanOk(resp) ==
  [kind |-> "ok", resp |-> resp, code |-> "", cls |-> "", details |-> ""]

PlanAnswers ==
  {PlanOk(JDict(<<>>)),
   PlanOk(JDict(<<KV(<<"plan">>, JStr(<<"{", "}">>))>>)),
   PlanOk(JDict(<<KV(<<"plan">>, JStr(<<>>))>>)),
   PlanOk(JDict(<<KV(<<"plan">>, JStr(<<"not json">>))>>)),
   PlanOk(JDict(<<KV(<<"plan">>, JStr(PlannerPlan))>>)),
   PlanOk(JDict(<<KV(<<"plan">>, JStr(LegacyPlan))>>)),
   [kind |-> "AioRpcError", resp |-> None, code |-> "UNAVAILABLE", cls |-> "",
    details |-> "failed to connect"],
   [kind |-> "Exception", resp |-> None, code |-> "", cls |-> "RuntimeError",
    details |-> "boom"]}

ToolOutput == JDict(<<KV(<<"output">>, JStr(<<"ok">>))>>)

ToolErrorBody ==
  JDict(<<KV(<<"error">>, JStr(<<"tool_failed">>)),
          KV(<<"details">>, JStr(<<"exit 1">>))>>)

SandboxAnswers ==
  [primary : {HttpOk, HttpNotFound},
   fallback : {HttpOk, HttpNoConnection},
   body : {Decoded(ToolOutput, 0), DecodeError},
   json_error : {RequestsJSONDecodeError, PlainValueError}]

CallableResults == {ToolOutput, ToolErrorBody}

CallableExceptions == {"RuntimeError"}

Pending == [ty |-> "pending"]

----------------------------------------------------------------------------
(* The run of one request *)

Init ==
  /\ loop \in {AgentLoop(e, n) : e \in Executors, n \in 0..MaxTurns}
  /\ run = IdleRun
  /\ parse_in = <<>>
  /\ parse_out = Pending
  /\ AgentIdle
  /\ MemoryIdle

\* run_agent is called.
RunAgent ==
  /\ run.pc = "idle"
  /\ \E prompt \in Prompts, context \in Contexts :
       run' = begin_run(loop, prompt, context)
  /\ UNCHANGED <<render, health, runs,
                 loop, parse_in, parse_out, plan_request, memory_vars>>

\* await get_session_history(session_id) completes.
HistoryFetched ==
  /\ run.pc = "fetch"
  /\ \E http \in MemoryAnswers : run' = after_history(loop, run, http)
  /\ UNCHANGED <<render, health, runs,
                 loop, parse_in, parse_out, plan_request, memory_vars>>

\* await get_llm_plan(current_prompt) completes or raises.
PlanAnswered ==
  /\ run.pc = "plan"
  /\ \E outcome \in PlanAnswers : run' = after_plan(loop, run, outcome)
  /\ UNCHANGED <<render, health, runs,
                 loop, parse_in, parse_out, plan_request, memory_vars>>

\* self._tool_executor(tool_name, args) returns.
ToolReturned ==
  /\ run.pc = "tool"
  /\ \/ /\ loop.tool_executor = SandboxExecutor
        /\ \E http \in SandboxAnswers :
             run' = after_tool(loop, run, execute_tool(http))
     \/ /\ loop.tool_executor = CallableExecutor
        /\ \E tool_result \in CallableResults :
             run' = after_tool(loop, run, tool_result)
  /\ UNCHANGED <<render, health, runs,
                 loop, parse_in, parse_out, plan_request, memory_vars>>

\* self._tool_executor(tool_name, args) raises.
ToolRaised ==
  /\ run.pc = "tool"
  /\ loop.tool_executor = CallableExecutor
  /\ \E cls \in CallableExceptions : run' = tool_raised(loop, run, cls)
  /\ UNCHANGED <<render, health, runs,
                 loop, parse_in, parse_out, plan_request, memory_vars>>

Next == RunAgent \/ HistoryFetched \/ PlanAnswered \/ ToolReturned \/ ToolRaised

Spec == Init /\ [][Next]_vars

----------------------------------------------------------------------------
(* parse_tool_call on its own: every text of ParseInputs is parsed once.   *)

NameFields(nm) ==
  {Absent, None, JNum("1"), JStr(<<>>), JStr(<<" ">>), JStr(<<nm>>),
   JStr(<<" ", nm, " ">>)}

ArgsFields ==
  {Absent, None, JDict(<<>>), JDict(<<KV(<<"a">>, JNum("1"))>>), JList(<<>>),
   JStr(<<"x">>)}

shape_object(name, args_key, args) ==
  JDict((IF name = Absent THEN <<>> ELSE <<KV(<<"name">>, name)>>)
        \o (IF args = Absent THEN <<>> ELSE <<KV(<<args_key>>, args)>>))

ShapeObjects(nm, args_key) ==
  {Absent, None, JStr(<<"x">>), JList(<<>>)}
  \cup {shape_object(name, args_key, args) :
          name \in NameFields(nm), args \in ArgsFields}

root_object(tool, tool_call) ==
  JDict((IF tool = Absent THEN <<>> ELSE <<KV(<<"tool">>, tool)>>)
        \o (IF tool_call = Absent THEN <<>> ELSE <<KV(<<"tool_call">>, tool_call)>>))

ParseRoots ==
  {root_object(tool, tool_call) :
     tool \in ShapeObjects("n", "args"),
     tool_call \in ShapeObjects("m", "arguments")}
  \cup {None, JNum("1"), JStr(<<"x">>), JList(<<>>),
        JList(<<root_object(shape_object(JStr(<<"n">>), "args", Absent), Absent)>>)}

ParseInputs ==
  {json_dumps(x) : x \in ParseRoots}
  \cup {<<>>, <<"not json">>, <<"{">>, <<"{", "}", "{", "}">>,
        <<"{", "\"", "tool", "\"", "}">>}

ParseInit ==
  /\ loop = AgentLoop(NoExecutor, 0)
  /\ run = IdleRun
  /\ parse_in \in ParseInputs
  /\ parse_out = Pending
  /\ AgentIdle
  /\ MemoryIdle

ParseToolCall ==
  /\ parse_out = Pending
  /\ parse_out' = parse_tool_call(parse_in)
  /\ UNCHANGED <<render, health, runs,
                 loop, run, parse_in, plan_request, memory_vars>>

ParseNext == ParseToolCall

ParseSpec == ParseInit /\ [][ParseNext]_vars

----------------------------------------------------------------------------
(* memory_service: the Chroma store.  A collection is the sequence of its  *)
(* documents in insertion order; chroma maps the names of the collections  *)
(* that exist to their documents.                                          *)

RAG_KNOWLEDGE_BASES == <<"Domain-KB", "Body-KB", "Soul-KB">>

MIND_KB_NAME == "Mind-KB"

Document(id, document, metadata) ==
  [id |-> id, document |-> document, metadata |-> metadata]

\* get_collection: client.get_or_create_collection(name)
get_collection(store, name) ==
  IF name \in DOMAIN store THEN store ELSE store @@ (name :> <<>>)

has_id(docs, id) == \E i \in 1..Len(docs) : docs[i].id = id

\* collection.add: a new id is appended; an id that exists is refused, by
\* an exception or silently, as the client library has it (duplicate_add).
collection_add(docs, doc, duplicate_add) ==
  IF has_id(docs, doc.id)
  THEN [raised |-> duplicate_add = "raise", docs |-> docs]
  ELSE [raised |-> FALSE, docs |-> Append(docs, doc)]

collection_upsert_keeps_first(docs, doc) ==
  IF has_id(docs, doc.id) THEN docs ELSE Append(docs, doc)

\* collection.upsert: an id that exists is overwritten, a new one appended.
collection_upsert(docs, doc) ==
  IF has_id(docs, doc.id)
  THEN [i \in 1..Len(docs) |-> IF docs[i].id = doc.id THEN doc ELSE docs[i]]
  ELSE Append(docs, doc)

seed_document(kb) ==
  Document(<<"seed-", kb>>,
           <<"Seed document for ", kb, ". This is initial mock knowledge.">>,
           [knowledge_base |-> kb, kind |-> "seed"])

RECURSIVE seed_from(_, _)
seed_from(store, i) ==
  IF i > Len(RAG_KNOWLEDGE_BASES) THEN store
  ELSE LET kb == RAG_KNOWLEDGE_BASES[i]
           created == get_collection(store, kb)
       IN seed_from(IF Len(created[kb]) = 0
                    THEN [created EXCEPT
                            ![kb] = collection_add(@, seed_document(kb), "raise").docs]
                    ELSE created,
                    i + 1)

seed_rag_collections_last_only(store) == seed_from(store, Len(RAG_KNOWLEDGE_BASES))

\* seed_rag_collections, run when the module is imported
seed_rag_collections(store) == seed_from(store, 1)

----------------------------------------------------------------------------
(* memory_service.store_mind_playbook and summarize_history_for_mind_kb *)

Digit(d) ==
  CASE d = 0 -> "0" [] d = 1 -> "1" [] d = 2 -> "2" [] d = 3 -> "3"
    [] d = 4 -> "4" [] d = 5 -> "5" [] d = 6 -> "6" [] d = 7 -> "7"
    [] d = 8 -> "8" [] d = 9 -> "9"

\* str(n) for n >= 0, one atom per digit
RECURSIVE int_str(_)
int_str(n) ==
  IF n < 10 THEN <<Digit(n)>> ELSE int_str(n \div 10) \o <<Digit(n % 10)>>

\* str(x) of a string, None or a number
py_str(x) ==
  IF x.ty = "str" THEN x.v
  ELSE IF x.ty = "null" THEN <<"None">>
  ELSE <<x.v>>

RolePrefix(role) ==
  IF role = <<"user">> THEN <<"User prompt">>
  ELSE IF role = <<"assistant">> THEN <<"Planner/Assistant">>
  ELSE IF role = <<"tool_result">> THEN <<"Tool returned">>
  ELSE role

RECURSIVE summarize_steps_counts_blank(_, _)
summarize_steps_counts_blank(items, step) ==
  IF items = <<>> THEN <<>>
  ELSE LET item == Head(items) IN
       IF ~isinstance_dict(item) THEN summarize_steps_counts_blank(Tail(items), step)
       ELSE LET role0 == py_or(JStr(strip(py_str(dict_get(item, <<"role">>, JStr(<<>>))))),
                               JStr(<<"unknown">>)).v
                content == strip(py_str(dict_get(item, <<"content">>, JStr(<<>>))))
                role == IF role0 = <<"tool">> THEN <<"tool_result">> ELSE role0
            IN IF content = <<>>
               THEN summarize_steps_counts_blank(Tail(items), step + 1)
               ELSE <<int_str(step) \o <<") ">> \o RolePrefix(role) \o <<": ">>
                        \o content>>
                    \o summarize_steps_counts_blank(Tail(items), step + 1)

\* The loop over history_sequence: the step lines, numbered from `step`.
RECURSIVE summarize_steps(_, _)
summarize_steps(items, step) ==
  IF items = <<>> THEN <<>>
  ELSE LET item == Head(items) IN
       IF ~isinstance_dict(item) THEN summarize_steps(Tail(items), step)
       ELSE LET role0 == py_or(JStr(strip(py_str(dict_get(item, <<"role">>, JStr(<<>>))))),
                               JStr(<<"unknown">>)).v
                content == strip(py_str(dict_get(item, <<"content">>, JStr(<<>>))))
                role == IF role0 = <<"tool">> THEN <<"tool_result">> ELSE role0
            IN IF content = <<>> THEN summarize_steps(Tail(items), step)
               ELSE <<int_str(step) \o <<") ">> \o RolePrefix(role) \o <<": ">>
                        \o content>>
                    \o summarize_steps(Tail(items), step + 1)

\* "\n".join(lines)
RECURSIVE join_lines(_)
join_lines(lines) ==
  IF lines = <<>> THEN <<>>
  ELSE IF Len(lines) = 1 THEN lines[1]
  ELSE lines[1] \o <<"\n">> \o join_lines(Tail(lines))

summarize_history_for_mind_kb(prompt, history_sequence) ==
  join_lines(<<<<"Playbook for: ">> \o prompt, <<"---">>, <<"Steps:">>>>
             \o summarize_steps(py_or(history_sequence, JList(<<>>)).v, 1))

\* hashlib.sha256(text).hexdigest(): a digest that tells any two texts
\* apart; it is written as the text it digests, under the tag "sha256:".
sha256_hexdigest(text) == <<"sha256:">> \o text

playbook_document(session_id, prompt, history_sequence) ==
  LET playbook_text == summarize_history_for_mind_kb(prompt, history_sequence) IN
  Document(sha256_hexdigest(playbook_text), playbook_text,
           [source_session |-> session_id, original_prompt |-> prompt,
            kind |-> "playbook"])

store_mind_playbook_appends(store, be, session_id, prompt, history_sequence, write) ==
  LET doc == playbook_document(session_id, prompt, history_sequence)
  IN IF write = "fails"
     THEN [store |-> store, raised |-> be.has_upsert, ret |-> doc.id]
     ELSE [store |-> [store EXCEPT ![MIND_KB_NAME] = Append(@, doc)],
           raised |-> FALSE, ret |-> doc.id]

store_mind_playbook_overwrites(store, be, session_id, prompt, history_sequence, write) ==
  LET doc == playbook_document(session_id, prompt, history_sequence)
  IN IF write = "fails"
     THEN [store |-> store, raised |-> be.has_upsert, ret |-> doc.id]
     ELSE [store |-> [store EXCEPT ![MIND_KB_NAME] = collection_upsert(@, doc)],
           raised |-> FALSE, ret |-> doc.id]

store_mind_playbook_session_id(store, be, session_id, prompt, history_sequence, write) ==
  LET doc0 == playbook_document(session_id, prompt, history_sequence)
      doc == [doc0 EXCEPT !.id = sha256_hexdigest(session_id \o doc0.document)]
  IN IF be.has_upsert
     THEN IF write = "fails"
          THEN [store |-> store, raised |-> TRUE, ret |-> doc.id]
          ELSE [store |-> [store EXCEPT ![MIND_KB_NAME] = collection_upsert(@, doc)],
                raised |-> FALSE, ret |-> doc.id]
     ELSE IF write = "fails"
          THEN [store |-> store, raised |-> FALSE, ret |-> doc.id]
          ELSE [store |-> [store EXCEPT ![MIND_KB_NAME] =
                             collection_add(@, doc, be.duplicate_add).docs],
                raised |-> FALSE, ret |-> doc.id]

\* store_mind_playbook, its first client call: get_collection(MIND_KB_NAME).
mind_kb_collection(store) == get_collection(store, MIND_KB_NAME)

\* store_mind_playbook from there on: the text, the id and the second client
\* call, the write.  `store` is the Chroma store as the write finds it
\* (Mind-KB exists since the first call); `write` is what the backend does
\* with the write: "ok" (it carries it out) or "fails" (it raises:
\* connection lost, disk full, ...).  raised: an exception left the
\* function; ret: the id it returns otherwise.
store_mind_playbook(store, be, session_id, prompt, history_sequence, write) ==
  LET doc == playbook_document(session_id, prompt, history_sequence)
  IN IF be.has_upsert
     THEN IF write = "fails"
          THEN [store |-> store, raised |-> TRUE, ret |-> doc.id]
          ELSE [store |-> [store EXCEPT ![MIND_KB_NAME] = collection_upsert(@, doc)],
                raised |-> FALSE, ret |-> doc.id]
     ELSE IF write = "fails"
          THEN [store |-> store, raised |-> FALSE, ret |-> doc.id]
          ELSE [store |-> [store EXCEPT ![MIND_KB_NAME] =
                             collection_add(@, doc, be.duplicate_add).docs],
                raised |-> FALSE, ret |-> doc.id]

\* A /memory/playbook request whose write has not been made yet.
playbook_request(payload) ==
  [pc |-> "write",
   call |-> [session_id |-> payload.session_id, prompt |-> payload.prompt,
             history_sequence |-> payload.history_sequence,
             write |-> "", write_no |-> 0, status |-> "",
             playbook_id |-> <<>>]]

\* POST /memory/playbook (memory main.py store_playbook) from the write on:
\* the store after it, and the response: 200 with the id, or the 500 of an
\* unhandled exception.  write_no counts the writes handed to the backend.
store_playbook(store, be, request, write, write_no) ==
  LET c == request.call
      r == store_mind_playbook(store, be, c.session_id, c.prompt,
                               c.history_sequence, write)
  IN [store |-> r.store,
      request |-> [pc |-> "respond",
                   call |-> [c EXCEPT
                               !.write = write,
                               !.write_no = write_no,
                               !.status = IF r.raised THEN "500" ELSE "200",
                               !.playbook_id = IF r.raised THEN <<>> ELSE r.ret]]]

\* Inputs of the playbook endpoint.
MaxPlaybookCalls == 3

\* The threads of the server's pool that serve requests at the same time.
NumWorkers == 2

PlaybookSessions == {<<"s1">>, <<"s2">>}

PlaybookPrompts == {<<"deploy">>}

HistoryItem(role, content) ==
  JDict(<<KV(<<"role">>, JStr(role)), KV(<<"content">>, JStr(content))>>)

\* The first two are rendered to the same text: a step without content is
\* left out.
PlaybookHistories ==
  {JList(<<HistoryItem(<<"user">>, <<"hi">>)>>),
   JList(<<HistoryItem(<<"user">>, <<"hi">>), HistoryItem(<<"tool">>, <<" ">>)>>),
   JList(<<HistoryItem(<<"tool">>, <<" ", "ok", " ">>),
           HistoryItem(<<"assistant">>, <<"done">>)>>)}

\* Session s1 sends every history; session s2 sends the first one as well.
PlaybookPayloads ==
  {p \in [session_id : PlaybookSessions, prompt : PlaybookPrompts,
          history_sequence : PlaybookHistories] :
     \/ p.session_id = <<"s1">>
     \/ p.history_sequence = JList(<<HistoryItem(<<"user">>, <<"hi">>)>>)}

WriteOutcomes == {"ok", "fails"}

Backends ==
  {[has_upsert |-> TRUE, duplicate_add |-> "raise"],
   [has_upsert |-> FALSE, duplicate_add |-> "raise"],
   [has_upsert |-> FALSE, duplicate_add |-> "ignore"]}

\* The service has started on an empty store: the three knowledge bases are
\* seeded, Mind-KB does not exist yet.
PlaybookInit ==
  /\ loop = AgentLoop(NoExecutor, 0)
  /\ run = IdleRun
  /\ parse_in = <<>>
  /\ parse_out = Pending
  /\ AgentIdle
  /\ chroma = seed_rag_collections(NoStore)
  /\ backend \in Backends
  /\ playbook_calls = <<>>
  /\ playbook_requests = EmptyBag
  /\ rag_call = NoCall
  /\ sessions = <<>>
  /\ history_calls = <<>>
  /\ store_calls = <<>>

\* store_playbook is a `def` endpoint: every request runs on a thread of the
\* server's pool, and the threads take turns at each client call.

\* A request arrives and its get_collection(MIND_KB_NAME) returns.
StorePlaybook ==
  /\ Len(playbook_calls) + BagCardinality(playbook_requests) < MaxPlaybookCalls
  /\ BagCardinality(playbook_requests) < NumWorkers
  /\ \E payload \in PlaybookPayloads :
       playbook_requests' = playbook_requests (+) SetToBag({playbook_request(payload)})
  /\ chroma' = mind_kb_collection(chroma)
  /\ UNCHANGED <<render, health, runs,
                 loop, run, parse_in, parse_out, plan_request, backend,
                 playbook_calls, rag_call, sessions, history_calls, store_calls>>

\* The upsert or add of a request in progress returns or raises.
PlaybookWritten ==
  /\ \E request \in BagToSet(playbook_requests), write \in WriteOutcomes :
       /\ request.pc = "write"
       /\ LET written == {e \in BagToSet(playbook_requests) : e.pc = "respond"}
              r == store_playbook(chroma, backend, request, write,
                                  Len(playbook_calls) + Cardinality(written) + 1)
          IN /\ chroma' = r.store
             /\ playbook_requests' = (playbook_requests (-) SetToBag({request}))
                                       (+) SetToBag({r.request})
  /\ UNCHANGED <<render, health, runs,
                 loop, run, parse_in, parse_out, plan_request, backend,
                 playbook_calls, rag_call, sessions, history_calls, store_calls>>

\* A request whose write was made is answered.
PlaybookResponded ==
  /\ \E request \in BagToSet(playbook_requests) :
       /\ request.pc = "respond"
       /\ playbook_calls' = Append(playbook_calls, request.call)
       /\ playbook_requests' = playbook_requests (-) SetToBag({request})
  /\ UNCHANGED <<render, health, runs,
                 loop, run, parse_in, parse_out, plan_request, chroma, backend,
                 rag_call, sessions, history_calls, store_calls>>

PlaybookNext == StorePlaybook \/ PlaybookWritten \/ PlaybookResponded

PlaybookSpec == PlaybookInit /\ [][PlaybookNext]_vars

----------------------------------------------------------------------------
(* memory_service: the SQLite table sessions(session_id PRIMARY KEY,       *)
(* history_json), and the two session endpoints of the memory service.     *)
(* A call of get_session_history takes two steps on its own connection,    *)
(* the SELECT and, when no row came back, the INSERT; FastAPI runs each    *)
(* request of a `def` endpoint on a worker thread, so the steps of two     *)
(* calls interleave.                                                       *)

SessionRow(session_id, history_json) ==
  [session_id |-> session_id, history_json |-> history_json]

has_row(rows, session_id) ==
  \E i \in 1..Len(rows) : rows[i].session_id = session_id

\* cursor.fetchone() of SELECT history_json FROM sessions WHERE session_id = ?
fetchone(rows, session_id) ==
  IF has_row(rows, session_id)
  THEN LET i == CHOOSE i \in 1..Len(rows) : rows[i].session_id = session_id
       IN JStr(rows[i].history_json)
  ELSE None

\* The SELECT of get_session_history and the branch on its row: a row is
\* decoded and returned (the empty list unless it decodes to a list); no row
\* leads to the INSERT.
after_select(rows, call) ==
  LET row == fetchone(rows, call.session_id) IN
  IF row # None
  THEN LET parsed == json_loads(row.v) IN
       [pc |-> "done", session_id |-> call.session_id, raised |-> FALSE,
        ret |-> IF parsed.ok /\ isinstance_list(parsed.val)
                THEN parsed.val ELSE JList(<<>>)]
  ELSE [pc |-> "insert", session_id |-> call.session_id]

\* The INSERT of the empty history and the commit: the primary key refuses
\* a second row for a session id (sqlite3.IntegrityError).
after_insert(rows, call) ==
  IF has_row(rows, call.session_id)
  THEN [rows |-> rows,
        call |-> [pc |-> "done", session_id |-> call.session_id,
                  raised |-> TRUE, ret |-> None]]
  ELSE [rows |-> Append(rows, SessionRow(call.session_id,
                                         json_dumps(JList(<<>>)))),
        call |-> [pc |-> "done", session_id |-> call.session_id,
                  raised |-> FALSE, ret |-> JList(<<>>)]]

\* GET /memory/latest (get_latest_memory): the response to a finished call.
get_latest_memory(call) ==
  IF call.raised THEN [status |-> "500", body |-> None]
  ELSE [status |-> "200",
        body |-> JDict(<<KV(<<"session_id">>, JStr(call.session_id)),
                         KV(<<"messages">>, call.ret)>>)]

HttpServerError == "500"

\* POST /memory/store (store_memory): the history is counted and logged;
\* the table is not touched.
store_memory(payload) ==
  [status |-> HttpOk,
   body |-> [status |-> "ok", session_id |-> payload.session_id,
             turns |-> IF isinstance_list(payload.history)
                       THEN Len(payload.history.v) ELSE 0]]

\* memory_client.store_session_history: True when the POST was answered
\* with a success status, False when it raised (no connection, timeout) or
\* raise_for_status() did.
store_session_history(status) == status = HttpOk

\* Inputs of the session endpoints.
MaxStoreCalls == 2

Workers == 1..NumWorkers

SessionIds == {<<"s1">>, <<"s2">>}

Transcript(tag) ==
  JList(<<JDict(<<KV(<<"turn">>, JNum("0")), KV(<<"type">>, JStr(<<"llm_plan">>)),
                  KV(<<"prompt">>, JStr(<<tag>>))>>)>>)

StorePayloads ==
  [session_id : {<<"s1">>}, history : {Transcript("t1"), Transcript("t2")}]

\* The memory service has started on a new database file.
SessionInit ==
  /\ loop = AgentLoop(NoExecutor, 0)
  /\ run = IdleRun
  /\ parse_in = <<>>
  /\ parse_out = Pending
  /\ AgentIdle
  /\ chroma = NoStore
  /\ backend = NoBackend
  /\ playbook_calls = <<>>
  /\ playbook_requests = EmptyBag
  /\ rag_call = NoCall
  /\ sessions = <<>>
  /\ history_calls = [w \in Workers |-> NoCall]
  /\ store_calls = <<>>

\* A GET /memory/latest request reaches a free worker.
GetLatestMemory(w) ==
  /\ history_calls[w].pc = "idle"
  /\ \E session_id \in SessionIds :
       history_calls' = [history_calls EXCEPT
                           ![w] = [pc |-> "select", session_id |-> session_id]]
  /\ UNCHANGED <<render, health, runs,
                 loop, run, parse_in, parse_out, plan_request, chroma, backend,
                 playbook_calls, playbook_requests,
                 rag_call, sessions, store_calls>>

SelectHistory(w) ==
  /\ history_calls[w].pc = "select"
  /\ history_calls' = [history_calls EXCEPT
                         ![w] = after_select(sessions, history_calls[w])]
  /\ UNCHANGED <<render, health, runs,
                 loop, run, parse_in, parse_out, plan_request, chroma, backend,
                 playbook_calls, playbook_requests,
                 rag_call, sessions, store_calls>>

InsertHistory(w) ==
  /\ history_calls[w].pc = "insert"
  /\ LET r == after_insert(sessions, history_calls[w]) IN
     /\ sessions' = r.rows
     /\ history_calls' = [history_calls EXCEPT ![w] = r.call]
  /\ UNCHANGED <<render, health, runs,
                 loop, run, parse_in, parse_out, plan_request, chroma, backend,
                 playbook_calls, playbook_requests,
                 rag_call, store_calls>>

\* The response is sent and the worker is free again.
RespondHistory(w) ==
  /\ history_calls[w].pc = "done"
  /\ history_calls' = [history_calls EXCEPT ![w] = NoCall]
  /\ UNCHANGED <<render, health, runs,
                 loop, run, parse_in, parse_out, plan_request, chroma, backend,
                 playbook_calls, playbook_requests,
                 rag_call, sessions, store_calls>>

\* The agent's store_session_history posts a transcript: either the POST
\* does not get through, or store_memory serves it.
StoreMemory ==
  /\ Len(store_calls) < MaxStoreCalls
  /\ \E payload \in StorePayloads, reached \in BOOLEAN :
       LET status == IF reached THEN store_memory(payload).status
                     ELSE HttpNoConnection
       IN store_calls' = Append(store_calls,
                                [session_id |-> payload.session_id,
                                 history |-> payload.history,
                                 status |-> status,
                                 turns |-> IF reached
                                           THEN store_memory(payload).body.turns
                                           ELSE 0,
                                 reported |-> store_session_history(status)])
  /\ UNCHANGED <<render, health, runs,
                 loop, run, parse_in, parse_out, plan_request, chroma, backend,
                 playbook_calls, playbook_requests,
                 rag_call, sessions, history_calls>>

GetLatestMemoryStep == \E w \in Workers : GetLatestMemory(w)

SelectHistoryStep == \E w \in Workers : SelectHistory(w)

InsertHistoryStep == \E w \in Workers : InsertHistory(w)

RespondHistoryStep == \E w \in Workers : RespondHistory(w)

SessionNext ==
  \/ GetLatestMemoryStep
  \/ SelectHistoryStep
  \/ InsertHistoryStep
  \/ RespondHistoryStep
  \/ StoreMemory

SessionSpec == SessionInit /\ [][SessionNext]_vars

----------------------------------------------------------------------------
(* backend-python-agent main.py: POST /api/v1/plan (create_agent_plan).    *)
(* The endpoint owns one AgentLoop on the sandbox executor with max_turns  *)
(* 3, runs it with the request id as session id, posts the transcript to   *)
(* the memory service and answers with the run's result.                   *)

DefaultMaxTurns == 3

\* request.headers.get("X-Request-Id", "generated-python-" + str(int(time.time())))
request_id_of(header) ==
  IF header = Absent THEN <<"generated-python-", "1700000000">> ELSE header.v

\* Step 1: the echo call to the BFF, and what is kept of it.
bff_echo_data(status) ==
  IF status = HttpOk THEN JDict(<<KV(<<"echo">>, JStr(<<"pong">>))>>)
  ELSE IF status = HttpNoConnection
  THEN JDict(<<KV(<<"error">>, JStr(<<"BFF connection error: ", "ConnectError">>)),
               KV(<<"url">>, JStr(<<"http://localhost:8002", "/api/v1/echo">>))>>)
  ELSE JDict(<<KV(<<"error">>, JStr(<<"BFF HTTP error: ", status>>)),
               KV(<<"url">>, JStr(<<"http://localhost:8002", "/api/v1/echo">>))>>)

\* From the arrival of the request to `await client.post(.../api/v1/echo)`:
\* the request id is fixed and bff_echo_data is still {}.
begin_plan(header, prompt) ==
  [pc |-> "echo", request_id |-> request_id_of(header), prompt |-> prompt,
   bff_echo |-> JDict(<<>>)]

\* The echo call has answered or failed: bff_echo_data is set, and run_agent
\* is called next.
after_echo(ep, bff_status) ==
  [ep EXCEPT !.pc = "running", !.bff_echo = bff_echo_data(bff_status)]

finish_plan_needs_store(ep, agent_result, store_status) ==
  [pc |-> "responded", request_id |-> ep.request_id, prompt |-> ep.prompt,
   bff_echo |-> ep.bff_echo,
   store_status |-> store_status,
   stored |-> store_session_history(store_status),
   raised |-> ~store_session_history(store_status),
   response |->
     IF store_session_history(store_status)
     THEN [service |-> "backend-python-agent", status |-> "ok",
           agent |-> agent_result.agent, plan |-> agent_result.plan,
           llm_response |-> agent_result.llm_response,
           history |-> agent_result.history,
           session_id |-> agent_result.session_id,
           bff_echo |-> ep.bff_echo, request_id |-> ep.request_id]
     ELSE None]

\* Steps 2b and 3: the transcript is posted with store_session_history,
\* whose result is dropped, and the response is built from the run's result.
finish_plan(ep, agent_result, store_status) ==
  [pc |-> "responded", request_id |-> ep.request_id, prompt |-> ep.prompt,
   bff_echo |-> ep.bff_echo,
   store_status |-> store_status,
   stored |-> store_session_history(store_status),
   raised |-> FALSE,
   response |->
     [service |-> "backend-python-agent", status |-> "ok",
      agent |-> agent_result.agent, plan |-> agent_result.plan,
      llm_response |-> agent_result.llm_response,
      history |-> agent_result.history,
      session_id |-> agent_result.session_id,
      bff_echo |-> ep.bff_echo, request_id |-> ep.request_id]]

\* Inputs of the plan endpoint.
RequestIdHeaders == {Absent, JStr(<<"r1">>)}

BffAnswers == {HttpOk, HttpNoConnection}

StoreAnswers == {HttpOk, HttpServerError, HttpNoConnection}

PlanInit ==
  /\ loop = AgentLoop(SandboxExecutor, DefaultMaxTurns)
  /\ run = IdleRun
  /\ parse_in = <<>>
  /\ parse_out = Pending
  /\ AgentIdle
  /\ MemoryIdle

\* A POST /api/v1/plan request arrives and waits for the echo of the BFF.
CreateAgentPlan ==
  /\ plan_request.pc = "idle"
  /\ run.pc = "idle"
  /\ \E header \in RequestIdHeaders, prompt \in Prompts :
       plan_request' = begin_plan(header, prompt)
  /\ UNCHANGED <<render, health, runs, loop, run, parse_in, parse_out,
                 memory_vars>>

\* await client.post(.../api/v1/echo) completes or raises; run_agent is
\* called and runs to its first collaborator call.
BffAnswered ==
  /\ plan_request.pc = "echo"
  /\ \E bff_status \in BffAnswers :
       LET ep == after_echo(plan_request, bff_status) IN
       /\ plan_request' = ep
       /\ run' = begin_run(loop, ep.prompt,
                           context_of(JStr(ep.request_id), JStr(ep.request_id)))
  /\ UNCHANGED <<render, health, runs, loop, parse_in, parse_out, memory_vars>>

\* run_agent has returned: the transcript is posted and the response sent.
PlanResponded ==
  /\ plan_request.pc = "running"
  /\ run.pc = "returned"
  /\ \E store_status \in StoreAnswers :
       plan_request' = finish_plan(plan_request, run.result, store_status)
  /\ UNCHANGED <<render, health, runs,
                 loop, run, parse_in, parse_out, memory_vars>>

PlanNext ==
  \/ CreateAgentPlan
  \/ BffAnswered
  \/ HistoryFetched
  \/ PlanAnswered
  \/ ToolReturned
  \/ PlanResponded

PlanSpec == PlanInit /\ [][PlanNext]_vars

----------------------------------------------------------------------------
(* memory_service.rag_retrieve and ModelGatewayServicer.GetRAGContext.     *)
(* The embedding is opaque: which documents of a collection are nearest to *)
(* a query is an input, `rank`, that gives the documents of each           *)
(* collection an order of their own, nearest first.                        *)

\* The orders of n places: the sequences that hold each of 1..n once.
Orders(n) == {p \in [1..n -> 1..n] : \A i, j \in 1..n : i # j => p[i] # p[j]}

\* The rankings of a store: one order per collection, each collection
\* ordered on its own.
RECURSIVE RankingsOver(_, _)
RankingsOver(store, names) ==
  IF names = {} THEN {NoStore}
  ELSE LET kb == CHOOSE name \in names : TRUE IN
       {rest @@ (kb :> order) : rest \in RankingsOver(store, names \ {kb}),
                                order \in Orders(Len(store[kb]))}

Rankings(store) == RankingsOver(store, DOMAIN store)

\* The order a ranking gives the documents of a collection; a collection
\* created by the call itself is empty.
order_of(rank, kb) == IF kb \in DOMAIN rank THEN rank[kb] ELSE <<>>

Min(a, b) == IF a < b THEN a ELSE b

\* collection.query(query_texts=[query], n_results=n): the n nearest
\* documents, or all of them when there are fewer; the distance of a
\* document is written as its place in the order.  A backend refuses an
\* n_results below 1; that call is written here as one that finds nothing.
collection_query(docs, order, n_results) ==
  LET got == IF n_results < 1 THEN 0 ELSE Min(n_results, Len(docs)) IN
  [ids |-> <<[i \in 1..got |-> docs[order[i]].id]>>,
   documents |-> <<[i \in 1..got |-> docs[order[i]].document]>>,
   distances |-> <<[i \in 1..got |-> i]>>]

Match(id, text, distance, knowledge_base) ==
  [id |-> id, text |-> text, distance |-> distance,
   knowledge_base |-> knowledge_base, source |-> "chroma"]

\* The loop over kb_list: one query per entry, its matches appended.
\* `queries` lists the collection.query calls that were issued, each with
\* the base it went to and its n_results.
RECURSIVE retrieve_from(_, _, _, _)
retrieve_from(store, kb_list, n_results, rank) ==
  IF kb_list = <<>> THEN [store |-> store, matches |-> <<>>, queries |-> <<>>]
  ELSE LET kb == Head(kb_list)
           created == get_collection(store, kb)
           res == collection_query(created[kb], order_of(rank, kb), n_results)
           ids == res.ids[1]
           docs == res.documents[1]
           dists == res.distances[1]
           found == [i \in 1..Min(Len(ids), Min(Len(docs), Len(dists))) |->
                       Match(ids[i], docs[i], dists[i], kb)]
           rest == retrieve_from(created, Tail(kb_list), n_results, rank)
       IN [store |-> rest.store, matches |-> found \o rest.matches,
           queries |-> <<[kb |-> kb, n_results |-> n_results]>> \o rest.queries]

DefaultKnowledgeBases == <<"Body-KB">>

rag_retrieve_no_floor(store, query, knowledge_bases, top_k, rank) ==
  LET kb_list0 == py_or(knowledge_bases, JList(<<>>)).v
      kb_list == IF Len(kb_list0) = 0 THEN DefaultKnowledgeBases ELSE kb_list0
  IN retrieve_from(store, kb_list, top_k, rank)

rag_retrieve_one_limit(store, query, knowledge_bases, top_k, rank) ==
  LET k == IF top_k <= 0 THEN 1 ELSE top_k
      kb_list0 == py_or(knowledge_bases, JList(<<>>)).v
      kb_list == IF Len(kb_list0) = 0 THEN DefaultKnowledgeBases ELSE kb_list0
  IN retrieve_from(store, kb_list, k * Len(kb_list), rank)

\* rag_retrieve(query, knowledge_bases, top_k)
rag_retrieve(store, query, knowledge_bases, top_k, rank) ==
  LET k == IF top_k <= 0 THEN 1 ELSE top_k
      kb_list0 == py_or(knowledge_bases, JList(<<>>)).v
      kb_list == IF Len(kb_list0) = 0 THEN DefaultKnowledgeBases ELSE kb_list0
  IN retrieve_from(store, kb_list, k, rank)

\* GetRAGContext: top_k and the list are read from the request, and every
\* match becomes a RAGMatch of the response.
GetRAGContext(store, request, rank) ==
  LET top_k == IF request.top_k # 0 THEN request.top_k ELSE 1
      kb_list == JList(request.knowledge_bases)
      r == rag_retrieve(store, request.query, kb_list, top_k, rank)
  IN [store |-> r.store,
      call |-> [pc |-> "done", request |-> request, matches |-> r.matches,
                queries |-> r.queries]]

\* Inputs of the retrieval service.
MaxTopK == 3

KBDoc(kb, tag) ==
  Document(<<tag>>, <<"text of ", tag>>, [knowledge_base |-> kb, kind |-> "doc"])

\* What the Chroma directory holds when the service starts: nothing, or
\* two knowledge bases filled by an earlier run.
PersistedStores ==
  {NoStore,
   ("Body-KB" :> <<KBDoc("Body-KB", "b1"), KBDoc("Body-KB", "b2"),
                   KBDoc("Body-KB", "b3")>>)
   @@ ("Domain-KB" :> <<KBDoc("Domain-KB", "d1"), KBDoc("Domain-KB", "d2")>>)}

KnowledgeBaseLists ==
  {<<>>, <<"Body-KB">>, <<"Domain-KB", "Body-KB">>, <<"Body-KB", "Domain-KB">>,
   <<"Body-KB", "Body-KB">>, <<"Mind-KB", "Soul-KB">>, <<"Other-KB", "Body-KB">>}

RAGRequests ==
  [query : {<<"how to deploy">>}, top_k : -1..MaxTopK,
   knowledge_bases : KnowledgeBaseLists]

RagInit ==
  /\ loop = AgentLoop(NoExecutor, 0)
  /\ run = IdleRun
  /\ parse_in = <<>>
  /\ parse_out = Pending
  /\ AgentIdle
  /\ chroma \in {seed_rag_collections(store) : store \in PersistedStores}
  /\ backend = NoBackend
  /\ playbook_calls = <<>>
  /\ playbook_requests = EmptyBag
  /\ rag_call = NoCall
  /\ sessions = <<>>
  /\ history_calls = <<>>
  /\ store_calls = <<>>

\* One GetRAGContext request is served.
RagQuery ==
  /\ \E request \in RAGRequests, rank \in Rankings(chroma) :
       LET r == GetRAGContext(chroma, request, rank) IN
       /\ chroma' = r.store
       /\ rag_call' = r.call
  /\ UNCHANGED <<render, health, runs,
                 loop, run, parse_in, parse_out, plan_request, backend,
                 playbook_calls, playbook_requests,
                 sessions, history_calls, store_calls>>

RagNext == RagQuery

RagSpec == RagInit /\ [][RagNext]_vars

----------------------------------------------------------------------------
(* summarize_history_for_mind_kb on its own: histories of up to           *)
(* MaxHistoryLen entries, with roles that are known, padded, empty,        *)
(* missing or other, contents that are blank or padded, and an entry that  *)
(* is no object.                                                           *)

MaxHistoryLen == 3

RenderItems ==
  {HistoryItem(<<"user">>, <<"hi">>),
   HistoryItem(<<"tool">>, <<" ", "ok", " ">>),
   HistoryItem(<<"tool_result">>, <<"done">>),
   HistoryItem(<<"assistant">>, <<" ">>),
   HistoryItem(<<" ", "user", " ">>, <<"go">>),
   HistoryItem(<<>>, <<"x">>),
   HistoryItem(<<"system">>, <<"rules">>),
   JDict(<<KV(<<"content">>, JStr(<<"y">>))>>),
   JStr(<<"note">>)}

RenderHistories ==
  {JList(h) : h \in UNION {[1..n -> RenderItems] : n \in 0..MaxHistoryLen}}

RenderInit ==
  /\ loop = AgentLoop(NoExecutor, 0)
  /\ run = IdleRun
  /\ parse_in = <<>>
  /\ parse_out = Pending
  /\ plan_request = NoCall
  /\ MemoryIdle
  /\ render \in [pc : {"called"}, prompt : PlaybookPrompts,
                  history_sequence : RenderHistories, text : {<<>>}]
  /\ health = NoCall
  /\ runs = <<>>

\* The call of summarize_history_for_mind_kb returns its text.
Summarize ==
  /\ render.pc = "called"
  /\ render' = [render EXCEPT
                  !.pc = "done",
                  !.text = summarize_history_for_mind_kb(render.prompt,
                                                         render.history_sequence)]
  /\ UNCHANGED <<health, runs, loop, run, parse_in, parse_out, plan_request,
                 memory_vars>>

RenderNext == Summarize

RenderSpec == RenderInit /\ [][RenderNext]_vars

----------------------------------------------------------------------------
(* memory_service.check_health and the two probes that report it: GET      *)
(* /health (main.health_check) and grpc.health.v1.Health/Check             *)
(* (HealthServicer.Check).  Whether the Chroma client answers its          *)
(* heartbeat and whether the session database can be opened and queried    *)
(* are inputs of a probe.                                                  *)

check_health_reads_a_session(store, rows, chroma_up, sqlite_up) ==
  IF ~chroma_up
  THEN [ok |-> FALSE, msg |-> <<"chroma_unhealthy: ", "unreachable">>,
        store |-> store, rows |-> rows]
  ELSE IF ~sqlite_up
  THEN [ok |-> FALSE, msg |-> <<"sqlite_unhealthy: ", "unreachable">>,
        store |-> store, rows |-> rows]
  ELSE [ok |-> TRUE, msg |-> <<"ok">>, store |-> store,
        rows |-> IF has_row(rows, <<"health">>) THEN rows
                 ELSE Append(rows, SessionRow(<<"health">>, <<"[]">>))]

\* check_health(): the heartbeat of the Chroma client, then SELECT 1 on the
\* session database; the first that raises gives (False, reason).  Neither
\* reads or writes a collection or a row.
check_health(store, rows, chroma_up, sqlite_up) ==
  IF ~chroma_up
  THEN [ok |-> FALSE, msg |-> <<"chroma_unhealthy: ", "unreachable">>,
        store |-> store, rows |-> rows]
  ELSE IF ~sqlite_up
  THEN [ok |-> FALSE, msg |-> <<"sqlite_unhealthy: ", "unreachable">>,
        store |-> store, rows |-> rows]
  ELSE [ok |-> TRUE, msg |-> <<"ok">>, store |-> store, rows |-> rows]

HttpUnavailable == "503"

\* GET /health: 200 with status "ok", or HTTPException(503, detail=msg).
health_check(checked) ==
  IF ~checked.ok THEN [status |-> HttpUnavailable, detail |-> checked.msg]
  ELSE [status |-> HttpOk, detail |-> <<"ok">>]

\* HealthServicer.Check: SERVING, or NOT_SERVING with msg as details.
Check(checked) ==
  IF ~checked.ok THEN [status |-> "NOT_SERVING", detail |-> checked.msg]
  ELSE [status |-> "SERVING", detail |-> <<>>]

Probes == {"http", "grpc"}

\* The service has started: the knowledge bases are seeded, the session
\* table is empty and the workers of the history endpoint are free.
HealthInit ==
  /\ loop = AgentLoop(NoExecutor, 0)
  /\ run = IdleRun
  /\ parse_in = <<>>
  /\ parse_out = Pending
  /\ plan_request = NoCall
  /\ chroma \in {seed_rag_collections(store) : store \in PersistedStores}
  /\ backend = NoBackend
  /\ playbook_calls = <<>>
  /\ playbook_requests = EmptyBag
  /\ rag_call = NoCall
  /\ sessions = <<>>
  /\ history_calls = [w \in Workers |-> NoCall]
  /\ store_calls = <<>>
  /\ render = NoCall
  /\ health = NoCall
  /\ runs = <<>>

\* A health probe is served.
HealthCheck ==
  /\ health.pc = "idle"
  /\ \E probe \in Probes, chroma_up \in BOOLEAN, sqlite_up \in BOOLEAN :
       LET checked == check_health(chroma, sessions, chroma_up, sqlite_up)
           answer == IF probe = "http" THEN health_check(checked)
                     ELSE Check(checked)
       IN /\ chroma' = checked.store
          /\ sessions' = checked.rows
          /\ health' = [pc |-> "done", probe |-> probe,
                        chroma_up |-> chroma_up, sqlite_up |-> sqlite_up,
                        status |-> answer.status, detail |-> answer.detail]
  /\ UNCHANGED <<render, runs, loop, run, parse_in, parse_out, plan_request,
                 backend, playbook_calls, playbook_requests,
                 rag_call, history_calls, store_calls>>

\* The answer of the probe has been sent.
HealthResponded ==
  /\ health.pc = "done"
  /\ health' = NoCall
  /\ UNCHANGED <<render, runs, loop, run, parse_in, parse_out, plan_request,
                 memory_vars>>

HealthNext ==
  \/ HealthCheck
  \/ HealthResponded
  \/ GetLatestMemoryStep
  \/ SelectHistoryStep
  \/ InsertHistoryStep
  \/ RespondHistoryStep

HealthSpec == HealthInit /\ [][HealthNext]_vars

----------------------------------------------------------------------------
(* Several run_agent calls in progress on the one AgentLoop of main.py.    *)
(* run_agent keeps its state in locals (history, llm_response,             *)
(* current_prompt, session_id, turn); the instance holds _tool_executor    *)
(* and _max_turns only, and nothing writes them after __init__.  The calls *)
(* take their steps in any order.  What caller c hands in, and what its    *)
(* collaborators answer, carries the mark "@" c, so that text of one       *)
(* caller found in the run of another can be told.                         *)

NumRuns == 2

Callers == 1..NumRuns

Mark(c) == <<"@", Digit(c)>>

PromptOf(c) == <<"plan for ">> \o Mark(c)

ContextOf(c) == context_of(JStr(Mark(c)), Absent)

MemoryAnswerOf(c) ==
  [failed |-> FALSE,
   body |-> JDict(<<KV(<<"session_id">>, JStr(Mark(c))),
                    KV(<<"messages">>,
                       JList(<<JDict(<<KV(<<"prompt">>, JStr(Mark(c)))>>)>>))>>)]

ToolPlanOf(c) ==
  json_dumps(JDict(<<KV(<<"tool">>,
     JDict(<<KV(<<"name">>, JStr(Mark(c))),
             KV(<<"args">>, JDict(<<KV(<<"for">>, JStr(Mark(c)))>>))>>))>>))

PlanAnswersOf(c) ==
  {PlanOk(JDict(<<KV(<<"plan">>, JStr(ToolPlanOf(c)))>>)),
   PlanOk(JDict(<<KV(<<"plan">>, JStr(<<"done for ">> \o Mark(c)))>>))}

SandboxAnswersOf(c) ==
  {[primary |-> HttpOk, fallback |-> HttpOk,
    body |-> Decoded(JDict(<<KV(<<"output">>, JStr(Mark(c)))>>), 0),
    json_error |-> RequestsJSONDecodeError],
   [primary |-> HttpNotFound, fallback |-> HttpNoConnection,
    body |-> DecodeError, json_error |-> RequestsJSONDecodeError]}

run_agent_frame_on_instance(rs, c, r) ==
  [d \in DOMAIN rs |->
     IF d = c THEN r
     ELSE [rs[d] EXCEPT !.history = r.history,
                        !.current_prompt = r.current_prompt]]

\* The locals of call c after one of its steps; the locals of the other
\* calls are out of its reach.
run_agent_frame(rs, c, r) == [rs EXCEPT ![c] = r]

\* The agent service has started: one AgentLoop, no call in progress.
ConcurrentInit ==
  /\ loop = AgentLoop(SandboxExecutor, DefaultMaxTurns)
  /\ run = IdleRun
  /\ parse_in = <<>>
  /\ parse_out = Pending
  /\ plan_request = NoCall
  /\ MemoryIdle
  /\ render = NoCall
  /\ health = NoCall
  /\ runs = [c \in Callers |-> IdleRun]

CallRunAgent(c) ==
  /\ runs[c].pc = "idle"
  /\ runs' = run_agent_frame(runs, c, begin_run(loop, PromptOf(c), ContextOf(c)))
  /\ UNCHANGED <<render, health, loop, run, parse_in, parse_out, plan_request,
                 memory_vars>>

CallHistoryFetched(c) ==
  /\ runs[c].pc = "fetch"
  /\ runs' = run_agent_frame(runs, c,
                             after_history(loop, runs[c], MemoryAnswerOf(c)))
  /\ UNCHANGED <<render, health, loop, run, parse_in, parse_out, plan_request,
                 memory_vars>>

CallPlanAnswered(c) ==
  /\ runs[c].pc = "plan"
  /\ \E outcome \in PlanAnswersOf(c) :
       runs' = run_agent_frame(runs, c, after_plan(loop, runs[c], outcome))
  /\ UNCHANGED <<render, health, loop, run, parse_in, parse_out, plan_request,
                 memory_vars>>

CallToolReturned(c) ==
  /\ runs[c].pc = "tool"
  /\ \E http \in SandboxAnswersOf(c) :
       runs' = run_agent_frame(runs, c,
                               after_tool(loop, runs[c], execute_tool(http)))
  /\ UNCHANGED <<render, health, loop, run, parse_in, parse_out, plan_request,
                 memory_vars>>

RunAgentStep == \E c \in Callers : CallRunAgent(c)

HistoryFetchedStep == \E c \in Callers : CallHistoryFetched(c)

PlanAnsweredStep == \E c \in Callers : CallPlanAnswered(c)

ToolReturnedStep == \E c \in Callers : CallToolReturned(c)

ConcurrentNext ==
  \/ RunAgentStep
  \/ HistoryFetchedStep
  \/ PlanAnsweredStep
  \/ ToolReturnedStep

ConcurrentSpec == ConcurrentInit /\ [][ConcurrentNext]_vars

----------------------------------------------------------------------------
(* Properties of a run *)

Returned == run.pc = "returned"

RequestsTool(llm_response) == parse_tool_call(plan_text(llm_response)) # None

HasKey(d, key) == \E i \in 1..Len(d.v) : d.v[i].key = key

IsSuffix(suffix, text) ==
  /\ Len(suffix) <= Len(text)
  /\ SubSeq(text, Len(text) - Len(suffix) + 1, Len(text)) = suffix

IsStrictPrefix(prefix, text) ==
  /\ Len(prefix) < Len(text)
  /\ SubSeq(text, 1, Len(prefix)) = prefix

\* C1: whatever the plan source and the tool executor answer, a run never
\* makes more than max_turns plan-source calls and then returns: a run
\* that was called and has no step left has returned.
C1_AtMostMaxTurnsPlanCallsThenReturns ==
  /\ Len(run.plan_calls) <= loop.max_turns
  /\ ~(ENABLED Next) => Returned

\* C2: run_agent always returns a result and never raises: a failing plan
\* call is recorded as a structured error object, and no failure of a
\* collaborator ends the run with an exception.
C2_RunNeverRaises ==
  /\ run.pc # "raised"
  /\ \A i \in 1..Len(run.plan_calls) :
       run.plan_calls[i].outcome.kind # "ok"
         => HasKey(run.history[2 * i - 1].llm_response, <<"error">>)

\* C3: without a tool executor, a first plan that requests a tool ends the
\* run after that turn: turns_executed is 1, the last history entry is the
\* tool result carrying the no_tool_executor error, and the plan source
\* was called once.
C3_NoExecutorEndsAfterOneTurn ==
  (/\ Returned
   /\ loop.tool_executor = NoExecutor
   /\ Len(run.history) >= 1
   /\ RequestsTool(run.history[1].llm_response))
  => /\ run.result.agent.turns_executed = 1
     /\ run.history[Len(run.history)].type = "tool_result"
     /\ dict_get(run.history[Len(run.history)].tool_result, <<"error">>, None)
          = JStr(<<"no_tool_executor">>)
     /\ Len(run.plan_calls) = 1

\* C4: in every result turns_executed is the number of turns executed (the
\* plan-source calls of the run), so it lies in 0..max_turns.
C4_TurnsExecutedCountsTurns ==
  Returned
  => /\ run.result.agent.turns_executed = Len(run.plan_calls)
     /\ 0 <= run.result.agent.turns_executed
     /\ run.result.agent.turns_executed <= loop.max_turns

\* C5: with max_turns >= 1, when the first plan-source call returns a plan
\* in which no tool call is recognized, the run ends after that turn:
\* turns_executed is 1, the final plan is the returned plan, and the
\* history is exactly one llm_plan entry.
C5_NoToolCallEndsAfterOneTurn ==
  (/\ Returned
   /\ loop.max_turns >= 1
   /\ Len(run.plan_calls) >= 1
   /\ run.plan_calls[1].outcome.kind = "ok"
   /\ HasKey(run.plan_calls[1].outcome.resp, <<"plan">>)
   /\ ~RequestsTool(run.plan_calls[1].outcome.resp))
  => /\ run.result.agent.turns_executed = 1
     /\ run.result.plan.llm_plan
          = dict_get(run.plan_calls[1].outcome.resp, <<"plan">>, None)
     /\ Len(run.plan_calls) = 1
     /\ Len(run.history) = 1
     /\ run.history[1].type = "llm_plan"
     /\ run.result.history = run.history

\* The plan "{}" was returned on turn 0 of a loop with turns to spare.
C5_Witness ==
  /\ Returned
  /\ loop.max_turns >= 2
  /\ loop.tool_executor # NoExecutor
  /\ run.result.plan.llm_plan = JStr(<<"{", "}">>)
  /\ run.result.agent.turns_executed = 1

\* C6: a failing plan-source call is the last one of its run (no retry):
\* its turn's llm_plan entry holds the structured error object, no tool is
\* executed in that turn, and the run returns at once, through the branch
\* for a plan without a tool call, with the error object as llm_response.
C6_PlanFailureEndsRun ==
  \A i \in 1..Len(run.plan_calls) :
    LET o == run.plan_calls[i].outcome
        entry == run.history[2 * i - 1]
        err == entry.llm_response
    IN o.kind # "ok"
       => /\ i = Len(run.plan_calls)
          /\ Returned
          /\ Len(run.history) = 2 * i - 1
          /\ entry.type = "llm_plan"
          /\ entry.turn = i - 1
          /\ dict_get(err, <<"error">>, None)
               = (IF o.kind = "AioRpcError" THEN JStr(<<"grpc_error">>)
                  ELSE JStr(<<o.cls>>))
          /\ o.kind = "AioRpcError" => dict_get(err, <<"code">>, None) = JStr(<<o.code>>)
          /\ dict_get(err, <<"details">>, None) = JStr(<<o.details>>)
          /\ ~RequestsTool(err)
          /\ Len(run.tool_calls) = i - 1
          /\ run.result.llm_response = err
          /\ run.result.plan.llm_plan = None

\* The second plan-source call of a run failed, after a tool had run.
C6_Witness ==
  /\ Returned
  /\ Len(run.plan_calls) = 2
  /\ run.plan_calls[2].outcome.kind = "AioRpcError"
  /\ Len(run.tool_calls) = 1
  /\ loop.max_turns = MaxTurns

ExpectedBlock(call) ==
  <<"\n\n<tool_response tool='">> \o call.tool_name \o <<"'>\n">>
  \o json_dumps(call.tool_result)
  \o <<"\n</tool_response>">>

\* C7: with an executor configured, each recognized tool call is handed to
\* the executor once, as the parsed (name, args); its result is appended
\* as the tool_result entry of that turn; if turns remain the run goes on,
\* and the next plan-source call gets a prompt ending with the
\* tool_response block of that result -- also when the result is an
\* {error, details} body.
C7_ToolResultFedBack ==
  loop.tool_executor # NoExecutor
  => /\ Len(run.tool_calls)
          = Cardinality({i \in 1..Len(run.history) :
                           run.history[i].type = "tool_result"})
            + (IF run.pc = "raised" THEN 1 ELSE 0)
     /\ \A k \in 1..Len(run.tool_calls) :
          LET call == run.tool_calls[k]
              parsed == parse_tool_call(plan_text(run.history[2 * k - 1].llm_response))
          IN /\ parsed # None
             /\ call.tool_name = parsed.name
             /\ call.args = parsed.args
             /\ ~call.raised
                  => /\ Len(run.history) >= 2 * k
                     /\ run.history[2 * k]
                          = ToolResultTurn(k - 1, call.tool_name, call.args,
                                           call.tool_result)
                     /\ k < loop.max_turns
                          => \/ run.pc = "plan" /\ Len(run.plan_calls) = k
                             \/ Len(run.plan_calls) > k
                     /\ Len(run.plan_calls) > k
                          => IsSuffix(ExpectedBlock(call),
                                      run.plan_calls[k + 1].prompt)

\* A tool answered with an error body and the plan source was called again
\* with that body's block at the end of the prompt.
C7_Witness ==
  /\ loop.tool_executor # NoExecutor
  /\ Len(run.plan_calls) >= 2
  /\ run.tool_calls[1].tool_name = <<"m">>
  /\ HasKey(run.tool_calls[1].tool_result, <<"error">>)
  /\ IsSuffix(ExpectedBlock(run.tool_calls[1]), run.plan_calls[2].prompt)

RECURSIVE BlocksUpTo(_)
BlocksUpTo(k) ==
  IF k = 0 THEN <<>> ELSE BlocksUpTo(k - 1) \o ExpectedBlock(run.tool_calls[k])

\* C8: the prompt of plan-source call k+1 is the prompt of call k with one
\* tool_response block appended (so call k's prompt is a strict prefix);
\* every prompt is the history preamble, the original prompt, and then only
\* tool_response blocks; the prompt reported in the result is the caller's.
C8_PromptGrowsByAppending ==
  /\ \A k \in 1..(Len(run.plan_calls) - 1) :
       /\ run.plan_calls[k + 1].prompt
            = run.plan_calls[k].prompt \o ExpectedBlock(run.tool_calls[k])
       /\ IsStrictPrefix(run.plan_calls[k].prompt, run.plan_calls[k + 1].prompt)
  /\ \A k \in 1..Len(run.plan_calls) :
       run.plan_calls[k].prompt
         = history_preamble(run.session_id, run.history_messages)
           \o run.arg_prompt \o BlocksUpTo(k - 1)
  /\ Returned => run.result.plan.prompt = run.arg_prompt

\* A run of three plan-source calls, the prompt grown twice, has returned.
C8_Witness ==
  /\ Returned
  /\ Len(run.plan_calls) = 3
  /\ Len(run.plan_calls[3].prompt) > Len(run.plan_calls[2].prompt)
  /\ run.history_messages # JList(<<>>)

Supplied(context, key) ==
  LET x == dict_get(context, <<key>>, Absent) IN x.ty = "str" /\ x.v # <<>>

Present(context, key) == HasKey(context, <<key>>)

\* The one id is used for the fetch, the history block and the result.
SessionIdUsedThroughout ==
  /\ \A i \in 1..Len(run.history_calls) : run.history_calls[i] = run.session_id
  /\ run.pc \notin {"idle", "fetch"} /\ loop.max_turns >= 1
       => /\ Len(run.history_calls) = 1
          /\ \A k \in 1..Len(run.plan_calls) :
               IsStrictPrefix(<<"<history session_id='">> \o run.session_id.v
                                \o <<"'>\n">>,
                              run.plan_calls[k].prompt)
  /\ Returned => run.result.session_id = run.session_id

\* C9 as stated: the session id is context.session_id when that key is
\* supplied, else context.request_id when that key is supplied, else the
\* sentinel; and that id is the one fetched, rendered and returned.
C9_SuppliedKeyWins ==
  run.pc # "idle"
  => /\ run.session_id
          = (IF Present(run.context, "session_id")
             THEN dict_get(run.context, <<"session_id">>, None)
             ELSE IF Present(run.context, "request_id")
             THEN dict_get(run.context, <<"request_id">>, None)
             ELSE JStr(<<"session-unknown">>))
     /\ SessionIdUsedThroughout

\* C9, amended: the session id is context.session_id when it is supplied
\* and not empty, else context.request_id when it is supplied and not
\* empty, else the sentinel "session-unknown"; and that id is the one
\* fetched, rendered in the history block and returned.
C9_NonEmptySuppliedKeyWins ==
  run.pc # "idle"
  => /\ run.session_id
          = (IF Supplied(run.context, "session_id")
             THEN dict_get(run.context, <<"session_id">>, None)
             ELSE IF Supplied(run.context, "request_id")
             THEN dict_get(run.context, <<"request_id">>, None)
             ELSE JStr(<<"session-unknown">>))
     /\ SessionIdUsedThroughout

\* An empty session_id was supplied next to a request_id: the run has
\* fetched, planned and returned under the request id.
C9_Witness ==
  /\ Returned
  /\ Present(run.context, "session_id")
  /\ ~Supplied(run.context, "session_id")
  /\ Supplied(run.context, "request_id")
  /\ run.history_calls = <<JStr(<<"r1">>)>>
  /\ run.result.session_id = JStr(<<"r1">>)
  /\ Len(run.plan_calls) >= 1

\* How many history blocks open in a prompt.
HistoryBlocks(text) ==
  Cardinality({i \in 1..Len(text) : text[i] = "<history session_id='"})

\* C26: a run of at least one turn fetches the session history exactly
\* once, before its first plan-source call and for its own session id; the
\* history block made from that fetch is the front of every prompt handed
\* to the plan source, and no prompt holds a second one.
C26_HistoryFetchedOnceAndLeadsEveryPrompt ==
  /\ run.pc = "fetch" => run.history_calls = <<>> /\ run.plan_calls = <<>>
  /\ (run.pc \notin {"idle", "fetch"} /\ loop.max_turns >= 1)
       => run.history_calls = <<run.session_id>>
  /\ Len(run.history_calls) <= 1
  /\ \A k \in 1..Len(run.plan_calls) :
       LET text == run.plan_calls[k].prompt
           block == history_preamble(run.session_id, run.history_messages)
       IN /\ Len(run.history_calls) = 1
          /\ Len(block) <= Len(text)
          /\ SubSeq(text, 1, Len(block)) = block
          /\ HistoryBlocks(text) = 1

\* A run of three turns over a stored history has returned: one fetch,
\* three prompts.
C26_Witness ==
  /\ Returned
  /\ Len(run.plan_calls) = 3
  /\ Len(run.tool_calls) = 2
  /\ Len(run.history_calls) = 1
  /\ isinstance_list(run.history_messages)
  /\ Len(run.history_messages.v) >= 1

\* The llm_plan entries of a transcript, in order.
PlanTurnsOf(h) == LET IsPlan(e) == e.type = "llm_plan" IN SelectSeq(h, IsPlan)

\* C27: in the transcript of a run the llm_plan entries carry the turn
\* indices 0, 1, 2, ... in order without gaps; a tool_result entry stands
\* directly after the llm_plan entry of its own turn, so a turn has one
\* llm_plan entry and at most one tool_result entry; every turn but the last
\* has its tool_result entry, and the last turn of a run that returned lacks
\* it only when its plan requested no tool; and a step of the run only
\* appends to the transcript.
C27_TranscriptShape ==
  /\ [](LET h == run.history
            plans == PlanTurnsOf(h)
        IN /\ \A k \in 1..Len(plans) : plans[k].turn = k - 1
           /\ \A i \in 1..Len(h) :
                /\ h[i].type \in {"llm_plan", "tool_result"}
                /\ h[i].type = "tool_result"
                     => /\ i > 1
                        /\ h[i - 1].type = "llm_plan"
                        /\ h[i - 1].turn = h[i].turn
                /\ (h[i].type = "llm_plan" /\ i < Len(h))
                     => h[i + 1].type = "tool_result"
           /\ (Returned /\ h # <<>> /\ h[Len(h)].type = "llm_plan")
                => ~RequestsTool(h[Len(h)].llm_response)
           /\ Returned => run.result.history = h)
  /\ [][/\ Len(run'.history) >= Len(run.history)
        /\ SubSeq(run'.history, 1, Len(run.history)) = run.history]_vars

\* A run of three turns has returned: two turns with a tool result and a
\* last one whose plan requested no tool.
C27_Witness ==
  /\ Returned
  /\ Len(run.history) = 5
  /\ run.history[2].type = "tool_result"
  /\ run.history[4].type = "tool_result"
  /\ run.history[5].type = "llm_plan"
  /\ run.history[5].turn = 2

\* C30: once the plan of turn max_turns - 1 has requested a tool and an
\* executor is configured, the run does not end before the tool was
\* executed, and it ends by returning a transcript whose last entry is the
\* tool_result of that turn, with that plan as llm_plan of the result and
\* as many executor calls as plan-source calls, max_turns.
C30_LastTurnToolStillExecuted ==
  (/\ loop.tool_executor # NoExecutor
   /\ loop.max_turns >= 1
   /\ Len(run.plan_calls) = loop.max_turns
   /\ RequestsTool(run.llm_response))
  => /\ run.pc \in {"tool", "returned"}
     /\ run.pc = "tool" => Len(run.tool_calls) = loop.max_turns - 1
     /\ run.pc = "returned"
          => LET h == run.result.history IN
             /\ h[Len(h)].type = "tool_result"
             /\ h[Len(h)].turn = loop.max_turns - 1
             /\ h[Len(h) - 1].type = "llm_plan"
             /\ run.result.plan.llm_plan
                  = dict_get(h[Len(h) - 1].llm_response, <<"plan">>, None)
             /\ Len(run.tool_calls) = loop.max_turns
             /\ Len(run.tool_calls) = Len(run.plan_calls)

----------------------------------------------------------------------------
(* Properties of parse_tool_call *)

WellFormedShape(obj, args_key) ==
  /\ obj.ty = "dict"
  /\ LET name == dict_get(obj, <<"name">>, Absent)
         args == dict_get(obj, <<args_key>>, Absent)
     IN /\ name.ty = "str"
        /\ \E i \in 1..Len(name.v) : name.v[i] \notin Whitespace
        /\ args.ty \in {"absent", "null", "dict"}

without_key(d, key) ==
  LET Keep(kv) == kv.key # key IN JDict(SelectSeq(d.v, Keep))

\* C10: the planner shape is tried first.  A root object with a fully valid
\* "tool" object yields that object's trimmed name and its args (an empty
\* mapping when absent or null), whatever "tool_call" holds; a root object
\* whose "tool" is present but malformed yields exactly what the same root
\* without its "tool" key yields.
C10_PlannerShapeFirst ==
  parse_out # Pending
  => LET r == json_loads(parse_in) IN
     (r.ok /\ r.val.ty = "dict" /\ HasKey(r.val, <<"tool">>))
     => LET tool == dict_get(r.val, <<"tool">>, Absent) IN
        IF WellFormedShape(tool, "args")
        THEN LET args == dict_get(tool, <<"args">>, Absent) IN
             /\ parse_out.ty = "call"
             /\ parse_out.name = strip(dict_get(tool, <<"name">>, Absent).v)
             /\ parse_out.args = (IF args.ty = "dict" THEN args ELSE JDict(<<>>))
        ELSE parse_out = parse_tool_call(json_dumps(without_key(r.val, <<"tool">>)))

\* Both shapes were valid in one payload, and the planner's call came out.
C10_Witness ==
  /\ parse_out # Pending
  /\ LET r == json_loads(parse_in) IN
     /\ r.ok /\ r.val.ty = "dict"
     /\ WellFormedShape(dict_get(r.val, <<"tool">>, Absent), "args")
     /\ WellFormedShape(dict_get(r.val, <<"tool_call">>, Absent), "arguments")
     /\ dict_get(dict_get(r.val, <<"tool">>, Absent), <<"name">>, Absent)
          = JStr(<<" ", "n", " ">>)
     /\ parse_out.ty = "call"
     /\ parse_out.name = <<"n">>

\* t is s without its leading and trailing whitespace.
IsTrimOf(t, s) ==
  \E i \in 1..Len(s), j \in 1..Len(s) :
    /\ i <= j
    /\ t = SubSeq(s, i, j)
    /\ s[i] \notin Whitespace /\ s[j] \notin Whitespace
    /\ \A k \in 1..Len(s) : (k < i \/ k > j) => s[k] \in Whitespace

\* A root object holding one well-formed tool object under `obj_key` and
\* nothing else, its name a non-blank string and its arguments an object.
WellFormedPayload(root, obj_key, args_key) ==
  /\ root.ty = "dict"
  /\ Len(root.v) = 1
  /\ root.v[1].key = <<obj_key>>
  /\ WellFormedShape(root.v[1].val, args_key)
  /\ dict_get(root.v[1].val, <<args_key>>, Absent).ty = "dict"

\* The same name and arguments in the other wire shape.
other_shape(root) ==
  LET planner == root.v[1].key = <<"tool">>
      obj == root.v[1].val
      name == dict_get(obj, <<"name">>, Absent)
      args == dict_get(obj, <<(IF planner THEN "args" ELSE "arguments")>>, Absent)
  IN IF planner
     THEN root_object(Absent, shape_object(name, "arguments", args))
     ELSE root_object(shape_object(name, "args", args), Absent)

PayloadName(root) == dict_get(root.v[1].val, <<"name">>, Absent).v

PayloadArgs(root) ==
  dict_get(root.v[1].val,
           <<(IF root.v[1].key = <<"tool">> THEN "args" ELSE "arguments")>>,
           Absent)

IsWellFormedPayload(root) ==
  \/ WellFormedPayload(root, "tool", "args")
  \/ WellFormedPayload(root, "tool_call", "arguments")

\* C11 as stated: a well-formed payload of either shape, its name n a
\* non-blank string and its arguments a an object, parses to exactly (n, a).
C11_ParseReturnsNameAndArgs ==
  parse_out # Pending
  => LET r == json_loads(parse_in) IN
     (r.ok /\ IsWellFormedPayload(r.val))
     => parse_out = ToolCall(PayloadName(r.val), PayloadArgs(r.val))

\* C11: a well-formed payload of either shape, its name n a non-blank string
\* and its arguments a an object, parses to (n without its surrounding
\* whitespace, a), and the same name and arguments sent in the other wire
\* shape parse to the same tool call.
C11_ParseReturnsTrimmedNameAndArgs ==
  parse_out # Pending
  => LET r == json_loads(parse_in) IN
     (r.ok /\ IsWellFormedPayload(r.val))
     => /\ parse_out.ty = "call"
        /\ IsTrimOf(parse_out.name, PayloadName(r.val))
        /\ parse_out.args = PayloadArgs(r.val)
        /\ parse_out = parse_tool_call(json_dumps(other_shape(r.val)))

\* A legacy payload with a padded name and one argument was parsed.
C11_Witness ==
  /\ parse_out # Pending
  /\ LET r == json_loads(parse_in) IN
     /\ r.ok
     /\ WellFormedPayload(r.val, "tool_call", "arguments")
     /\ PayloadName(r.val) = <<" ", "m", " ">>
     /\ PayloadArgs(r.val) = JDict(<<KV(<<"a">>, JNum("1"))>>)
  /\ parse_out = ToolCall(<<"m">>, JDict(<<KV(<<"a">>, JNum("1"))>>))

\* C12: the empty text, a text that is not JSON, a JSON text whose root is
\* not an object, and an object with neither a valid "tool" nor a valid
\* "tool_call" all parse to None (the parser has no other outcome than a
\* tool call or None).
C12_RejectedInputsGiveNone ==
  parse_out # Pending
  => LET r == json_loads(parse_in) IN
     (\/ parse_in = <<>>
      \/ ~r.ok
      \/ r.val.ty # "dict"
      \/ /\ ~WellFormedShape(dict_get(r.val, <<"tool">>, Absent), "args")
         /\ ~WellFormedShape(dict_get(r.val, <<"tool_call">>, Absent),
                             "arguments"))
     => parse_out = None

\* The payload {"tool": {}} was parsed, to None.
C12_Witness ==
  /\ parse_in = json_dumps(root_object(JDict(<<>>), Absent))
  /\ parse_out = None

\* What one shape yields on its own: None when its name is not a string or
\* is blank, or its arguments are present and not an object.
ShapeYields(obj, args_key, out) ==
  IF WellFormedShape(obj, args_key)
  THEN LET args == dict_get(obj, <<args_key>>, Absent) IN
       /\ out.ty = "call"
       /\ out.name # <<>>
       /\ IsTrimOf(out.name, dict_get(obj, <<"name">>, Absent).v)
       /\ out.args = (IF args.ty \in {"absent", "null"} THEN JDict(<<>>) ELSE args)
  ELSE out = None

\* C13: for either shape, the returned name is the payload's name without
\* its surrounding whitespace and is never empty; a name that is not a
\* string or is blank, or arguments that are present and not an object,
\* make the shape yield nothing; absent or null arguments yield the empty
\* mapping.  The parse result is what "tool" yields, else what "tool_call"
\* yields.
C13_NameTrimmedArgsDefaulted ==
  parse_out # Pending
  => LET r == json_loads(parse_in) IN
     (r.ok /\ r.val.ty = "dict")
     => LET tool == dict_get(r.val, <<"tool">>, Absent)
            tool_call == dict_get(r.val, <<"tool_call">>, Absent)
        IN /\ ShapeYields(tool, "args", parse_format1(r.val))
           /\ ShapeYields(tool_call, "arguments", parse_format2(r.val))
           /\ parse_out = (IF WellFormedShape(tool, "args")
                           THEN parse_format1(r.val)
                           ELSE parse_format2(r.val))
           /\ parse_out.ty = "call" => parse_out.name # <<>>

\* A legacy payload with a padded name and null arguments was parsed to the
\* trimmed name and the empty mapping.
C13_Witness ==
  /\ parse_in = json_dumps(root_object(Absent,
                   shape_object(JStr(<<" ", "m", " ">>), "arguments", None)))
  /\ parse_out = ToolCall(<<"m">>, JDict(<<>>))

----------------------------------------------------------------------------
(* Properties of the playbook store *)

MindKB == IF MIND_KB_NAME \in DOMAIN chroma THEN chroma[MIND_KB_NAME] ELSE <<>>

CountId(docs, id) == Cardinality({k \in 1..Len(docs) : docs[k].id = id})

SamePlaybook(c, d) ==
  c.prompt = d.prompt /\ c.history_sequence = d.history_sequence

\* The requests whose write was made, answered or not yet.
WrittenCalls ==
  {playbook_calls[k] : k \in 1..Len(playbook_calls)}
  \cup {e.call : e \in {x \in BagToSet(playbook_requests) : x.pc = "respond"}}

\* Some request handed the backend a write for this id that the backend
\* carried out.
Written(id) ==
  \E c \in WrittenCalls :
    c.status = "200" /\ c.playbook_id = id /\ c.write = "ok"

\* C14: two playbook requests with the same prompt and the same history
\* sequence that both return, return the same id, and Mind-KB never holds
\* two documents with that id: it holds exactly one once a write for the id
\* has been carried out, with an upsert backend and with an add-only one.
C14_StorePlaybookTwiceOneDocument ==
  \A i \in 1..Len(playbook_calls), j \in 1..Len(playbook_calls) :
    (/\ i < j
     /\ SamePlaybook(playbook_calls[i], playbook_calls[j])
     /\ playbook_calls[i].status = "200"
     /\ playbook_calls[j].status = "200")
    => /\ playbook_calls[i].playbook_id = playbook_calls[j].playbook_id
       /\ CountId(MindKB, playbook_calls[i].playbook_id)
            = (IF Written(playbook_calls[i].playbook_id) THEN 1 ELSE 0)

\* The same playbook was stored twice, from two sessions, through an
\* add-only backend that carried out both writes; one document is stored.
C14_Witness ==
  /\ Len(playbook_calls) >= 2
  /\ ~backend.has_upsert
  /\ SamePlaybook(playbook_calls[1], playbook_calls[2])
  /\ playbook_calls[1].session_id # playbook_calls[2].session_id
  /\ playbook_calls[1].write = "ok" /\ playbook_calls[2].write = "ok"
  /\ playbook_calls[1].status = "200" /\ playbook_calls[2].status = "200"
  /\ playbook_calls[1].playbook_id = playbook_calls[2].playbook_id
  /\ CountId(MindKB, playbook_calls[1].playbook_id) = 1

\* C18: a playbook request whose backend write fails is still answered
\* without an error, whether the write was an upsert or an add.
C18_FailingPlaybookWriteSwallowed ==
  \A i \in 1..Len(playbook_calls) :
    playbook_calls[i].write = "fails" => playbook_calls[i].status = "200"

\* C19: with an add-only backend, a playbook request whose id is already
\* stored when its add is made returns that id without an error and leaves
\* Mind-KB as it was, the stored text and metadata included.
C19_AddOnlyCollisionIsNoOp ==
  [][\A c \in WrittenCalls' \ WrittenCalls :
       (/\ ~backend.has_upsert
        /\ has_id(MindKB, playbook_document(c.session_id, c.prompt,
                                            c.history_sequence).id))
       => /\ c.status = "200"
          /\ c.playbook_id = playbook_document(c.session_id, c.prompt,
                                               c.history_sequence).id
          /\ chroma'[MIND_KB_NAME] = chroma[MIND_KB_NAME]]_vars

\* An add-only backend was asked to store, from session s2, the playbook
\* that session s1 had stored: the request returned the id and the stored
\* document is still the one of s1.
C19_Witness ==
  /\ ~backend.has_upsert
  /\ Len(playbook_calls) = 2
  /\ playbook_calls[1].session_id = <<"s1">>
  /\ playbook_calls[2].session_id = <<"s2">>
  /\ playbook_calls[1].write = "ok" /\ playbook_calls[2].write = "ok"
  /\ playbook_calls[2].status = "200"
  /\ playbook_calls[2].playbook_id = playbook_calls[1].playbook_id
  /\ MindKB = <<playbook_document(<<"s1">>, playbook_calls[1].prompt,
                                  playbook_calls[1].history_sequence)>>

\* The text a served request was rendered to.
RenderedText(c) == summarize_history_for_mind_kb(c.prompt, c.history_sequence)

\* The texts of the requests whose write the backend carried out.
StoredTexts == {RenderedText(c) : c \in {w \in WrittenCalls : w.write = "ok"}}

\* C28: Mind-KB only grows and holds no duplicate: a playbook request adds
\* at most one document and removes none (every document stays at its place
\* with its id and text), and Mind-KB holds exactly one document per
\* distinct rendered text that was stored, under the digest of that text.
C28_PlaybookBaseAppendOnlyDeduplicated ==
  /\ [](/\ Len(MindKB) = Cardinality(StoredTexts)
        /\ \A k \in 1..Len(MindKB) :
             /\ MindKB[k].document \in StoredTexts
             /\ MindKB[k].id = sha256_hexdigest(MindKB[k].document)
             /\ CountId(MindKB, MindKB[k].id) = 1)
  /\ [][LET before == MindKB
            after == IF MIND_KB_NAME \in DOMAIN chroma'
                     THEN chroma'[MIND_KB_NAME] ELSE <<>>
        IN /\ Len(after) <= Len(before) + 1
           /\ Len(after) >= Len(before)
           /\ \A k \in 1..Len(before) :
                /\ after[k].id = before[k].id
                /\ after[k].document = before[k].document]_vars

\* Three requests were written: two of them render to the same text, so
\* Mind-KB holds two documents.
C28_Witness ==
  /\ Len(playbook_calls) = 3
  /\ \A k \in 1..3 : playbook_calls[k].write = "ok"
  /\ RenderedText(playbook_calls[1]) = RenderedText(playbook_calls[3])
  /\ playbook_calls[1].history_sequence # playbook_calls[3].history_sequence
  /\ RenderedText(playbook_calls[1]) # RenderedText(playbook_calls[2])
  /\ Len(MindKB) = 2

\* The requests whose write for this id the backend carried out.
WritesOf(id) ==
  {w \in WrittenCalls : w.write = "ok" /\ w.status = "200" /\ w.playbook_id = id}

\* Of these, the one whose write came first and the one whose write came last.
FirstWrite(id) == CHOOSE w \in WritesOf(id) : \A v \in WritesOf(id) : w.write_no <= v.write_no

LastWrite(id) == CHOOSE w \in WritesOf(id) : \A v \in WritesOf(id) : v.write_no <= w.write_no

\* C29: the id of a playbook depends on prompt and history only: two
\* written requests with equal prompt and history and different session
\* ids return the same id and leave one document under it, whose
\* source_session is the session of the later request when the backend
\* upserts and of the earlier one when it can only add (later and earlier
\* by their writes).
C29_IdIgnoresSession ==
  \A i \in 1..Len(playbook_calls), j \in 1..Len(playbook_calls) :
    LET c == playbook_calls[i]
        d == playbook_calls[j]
    IN (/\ c.write_no < d.write_no
        /\ SamePlaybook(c, d)
        /\ c.session_id # d.session_id
        /\ c.write = "ok" /\ d.write = "ok")
       => /\ c.status = "200" /\ d.status = "200"
          /\ c.playbook_id = d.playbook_id
          /\ CountId(MindKB, c.playbook_id) = 1
          /\ \A k \in 1..Len(MindKB) :
               MindKB[k].id = c.playbook_id
               => MindKB[k].metadata.source_session
                    = IF backend.has_upsert
                      THEN LastWrite(c.playbook_id).session_id
                      ELSE FirstWrite(c.playbook_id).session_id

\* An upsert backend stored the same playbook from s1 and then from s2:
\* one document, whose source_session is s2.
C29_Witness ==
  /\ backend.has_upsert
  /\ Len(playbook_calls) = 2
  /\ SamePlaybook(playbook_calls[1], playbook_calls[2])
  /\ playbook_calls[1].session_id = <<"s1">>
  /\ playbook_calls[2].session_id = <<"s2">>
  /\ playbook_calls[1].write = "ok" /\ playbook_calls[2].write = "ok"
  /\ playbook_calls[1].playbook_id = playbook_calls[2].playbook_id
  /\ Len(MindKB) = 1
  /\ MindKB[1].metadata.source_session = <<"s2">>

----------------------------------------------------------------------------
(* Properties of the session store *)

\* The transcript of the last store to session_id that was reported as a
\* success to the agent; Absent when there is none.
RECURSIVE LastStored(_, _)
LastStored(calls, session_id) ==
  IF calls = <<>> THEN Absent
  ELSE LET c == calls[Len(calls)] IN
       IF c.session_id = session_id /\ c.reported THEN c.history
       ELSE LastStored(SubSeq(calls, 1, Len(calls) - 1), session_id)

CountRows(rows, session_id) ==
  Cardinality({i \in 1..Len(rows) : rows[i].session_id = session_id})

\* C15: once a store to a session has been reported as a success, a read
\* of that session that follows it returns the transcript of the last such
\* store: the SELECT of the read finds it, and the call returns it.
C15_StoredTranscriptIsReadBack ==
  [][\A w \in Workers :
       (/\ history_calls[w].pc = "select"
        /\ history_calls'[w].pc # "select"
        /\ LastStored(store_calls, history_calls[w].session_id) # Absent)
       => /\ history_calls'[w].pc = "done"
          /\ ~history_calls'[w].raised
          /\ history_calls'[w].ret
               = LastStored(store_calls, history_calls[w].session_id)]_vars

\* C16: every get_session_history call ends without an error and returns
\* the empty list for a session that had no record, however the calls of
\* the workers interleave, and no session ever has two records; a session
\* that a call has ended on has exactly one.
C16_ConcurrentGetHistoryAtomic ==
  /\ \A w \in Workers :
       history_calls[w].pc = "done"
       => /\ ~history_calls[w].raised
          /\ history_calls[w].ret = JList(<<>>)
          /\ CountRows(sessions, history_calls[w].session_id) = 1
  /\ \A session_id \in SessionIds : CountRows(sessions, session_id) <= 1

----------------------------------------------------------------------------
(* Properties of the plan endpoint *)

\* C17: when the plan endpoint has responded, store_session_history has
\* returned True exactly when its POST was answered with a success status
\* and False on every failure, nothing was raised, and the response carries
\* the result of the run (transcript, final plan, turn count, session id)
\* unchanged, whatever the outcome of the write.
C17_StoreFailureLeavesResult ==
  plan_request.pc = "responded"
  => /\ plan_request.stored = (plan_request.store_status = HttpOk)
     /\ ~plan_request.raised
     /\ plan_request.response # None
     /\ plan_request.response.status = "ok"
     /\ plan_request.response.history = run.result.history
     /\ plan_request.response.plan = run.result.plan
     /\ plan_request.response.agent = run.result.agent
     /\ plan_request.response.llm_response = run.result.llm_response
     /\ plan_request.response.session_id = run.result.session_id

\* A run of two turns was answered although the memory service refused
\* the write with an error status.
C17_Witness ==
  /\ plan_request.pc = "responded"
  /\ plan_request.store_status = HttpServerError
  /\ ~plan_request.stored
  /\ Len(run.plan_calls) = 2
  /\ plan_request.response.history = run.result.history
  /\ plan_request.response.agent.turns_executed = Len(run.result.history)

----------------------------------------------------------------------------
(* Properties of retrieval *)

\* matches is made of one block per entry of kb_list, in the order of the
\* list, the block of an entry holding at most `limit` matches, all tagged
\* with that entry.
BlocksInListOrder(matches, kb_list, limit) ==
  \E cut \in [0..Len(kb_list) -> 0..Len(matches)] :
    /\ cut[0] = 0
    /\ cut[Len(kb_list)] = Len(matches)
    /\ \A i \in 1..Len(kb_list) :
         /\ cut[i - 1] <= cut[i]
         /\ cut[i] - cut[i - 1] <= limit
         /\ \A m \in (cut[i - 1] + 1)..cut[i] :
              matches[m].knowledge_base = kb_list[i]

\* C20 as stated: the matches of a query come as one block per listed
\* base, in the order of the list, each block tagged with its base and
\* holding at most topK matches, at most topK * (number of bases) in all.
C20_BlocksOfAtMostTopK ==
  rag_call.pc = "done"
  => /\ BlocksInListOrder(rag_call.matches, rag_call.request.knowledge_bases,
                          rag_call.request.top_k)
     /\ Len(rag_call.matches)
          <= rag_call.request.top_k * Len(rag_call.request.knowledge_bases)

\* C20: the matches of a query come as one block per listed base, in the
\* order of the list, never interleaved, each match tagged with the base it
\* came from; a block holds at most k matches and there are at most
\* k * (number of bases) in all, where k is topK, or 1 when topK is zero or
\* negative, and where an empty list stands for the one default base.
C20_BlocksOfAtMostEffectiveTopK ==
  rag_call.pc = "done"
  => LET k == IF rag_call.request.top_k >= 1 THEN rag_call.request.top_k ELSE 1
         kb_list == IF rag_call.request.knowledge_bases = <<>>
                    THEN <<"Body-KB">>
                    ELSE rag_call.request.knowledge_bases
     IN /\ BlocksInListOrder(rag_call.matches, kb_list, k)
        /\ Len(rag_call.matches) <= k * Len(kb_list)
        /\ \A m \in 1..Len(rag_call.matches) :
             /\ rag_call.matches[m].knowledge_base \in DOMAIN chroma
             /\ has_id(chroma[rag_call.matches[m].knowledge_base],
                       rag_call.matches[m].id)

\* Domain-KB and Body-KB, of two and three documents, were queried with
\* topK = 2: two matches of Domain-KB are followed by two of Body-KB.
C20_Witness ==
  /\ rag_call.pc = "done"
  /\ rag_call.request.knowledge_bases = <<"Domain-KB", "Body-KB">>
  /\ rag_call.request.top_k = 2
  /\ Len(rag_call.matches) = 4
  /\ rag_call.matches[1].knowledge_base = "Domain-KB"
  /\ rag_call.matches[2].knowledge_base = "Domain-KB"
  /\ rag_call.matches[3].knowledge_base = "Body-KB"
  /\ rag_call.matches[4].knowledge_base = "Body-KB"
  /\ rag_call.matches[3].id = <<"b3">>

\* C21: a query whose knowledge-base list is empty goes to exactly one
\* base, the fixed default one; a topK of zero or less is treated as 1; and
\* every query that reaches the backend asks for at least one result, one
\* query per entry of the effective list, all with the same limit.
C21_DefaultBaseAndPositiveLimit ==
  rag_call.pc = "done"
  => LET req == rag_call.request
         q == rag_call.queries
     IN /\ req.knowledge_bases = <<>>
             => /\ Len(q) = 1
                /\ q[1].kb = "Body-KB"
        /\ req.knowledge_bases # <<>>
             => /\ Len(q) = Len(req.knowledge_bases)
                /\ \A i \in 1..Len(q) : q[i].kb = req.knowledge_bases[i]
        /\ \A i \in 1..Len(q) :
             /\ q[i].n_results >= 1
             /\ req.top_k <= 0 => q[i].n_results = 1
             /\ req.top_k >= 1 => q[i].n_results = req.top_k

\* An empty list with topK = -1 was served: one query of the default base
\* with limit 1, which gave one match.
C21_Witness ==
  /\ rag_call.pc = "done"
  /\ rag_call.request.knowledge_bases = <<>>
  /\ rag_call.request.top_k = -1
  /\ rag_call.queries = <<[kb |-> "Body-KB", n_results |-> 1]>>
  /\ Len(rag_call.matches) = 1

IsRagBase(kb) == \E i \in 1..Len(RAG_KNOWLEDGE_BASES) : RAG_KNOWLEDGE_BASES[i] = kb

TaggedWith(matches, kb) ==
  \E m \in 1..Len(matches) : matches[m].knowledge_base = kb

\* C22 as stated: every base a query was sent to holds a document, the
\* playbook base included.
C22_EveryQueriedBaseNonEmpty ==
  rag_call.pc = "done"
  => \A i \in 1..Len(rag_call.queries) :
       Len(chroma[rag_call.queries[i].kb]) >= 1

\* C22: from service start on, the three seeded bases (Domain-KB, Body-KB,
\* Soul-KB) exist and hold at least one document, so a query naming one of
\* them gets a match from it; the playbook base and any other named base
\* are not seeded: they are created empty by the first query naming them,
\* and while nothing was stored in them that query gets no match from them.
C22_OnlyRagBasesSeeded ==
  /\ \A i \in 1..Len(RAG_KNOWLEDGE_BASES) :
       /\ RAG_KNOWLEDGE_BASES[i] \in DOMAIN chroma
       /\ Len(chroma[RAG_KNOWLEDGE_BASES[i]]) >= 1
  /\ \A kb \in DOMAIN chroma : ~IsRagBase(kb) => chroma[kb] = <<>>
  /\ rag_call.pc = "done"
       => \A i \in 1..Len(rag_call.queries) :
            LET kb == rag_call.queries[i].kb IN
            /\ kb \in DOMAIN chroma
            /\ IsRagBase(kb) <=> TaggedWith(rag_call.matches, kb)

\* A query of Mind-KB and Soul-KB on a fresh service: Mind-KB was created
\* and is empty, and the only match is the seed document of Soul-KB.
C22_Witness ==
  /\ rag_call.pc = "done"
  /\ rag_call.request.knowledge_bases = <<"Mind-KB", "Soul-KB">>
  /\ rag_call.queries[1].kb = MIND_KB_NAME
  /\ chroma[MIND_KB_NAME] = <<>>
  /\ Len(rag_call.matches) = 1
  /\ rag_call.matches[1].knowledge_base = "Soul-KB"
  /\ rag_call.matches[1].id = <<"seed-", "Soul-KB">>

----------------------------------------------------------------------------
(* Properties of the playbook text *)

RawRole(item) == dict_get(item, <<"role">>, JStr(<<>>)).v

RawContent(item) == dict_get(item, <<"content">>, JStr(<<>>)).v

HasContent(item) == isinstance_dict(item) /\ strip(RawContent(item)) # <<>>

\* The label as the role table states it: any role outside the table is
\* written as it came.
StatedLabel(role) ==
  CASE role = <<"user">> -> <<"User prompt">>
    [] role = <<"assistant">> -> <<"Planner/Assistant">>
    [] role \in {<<"tool">>, <<"tool_result">>} -> <<"Tool returned">>
    [] OTHER -> role

\* The label of a role that is first trimmed, and "unknown" when nothing
\* is left of it.
TrimmedLabel(role) ==
  IF strip(role) = <<>> THEN <<"unknown">> ELSE StatedLabel(strip(role))

\* The header and one line per entry with content, numbered 1, 2, 3, ...
ExpectedText(r, Label(_)) ==
  LET kept == SelectSeq(r.history_sequence.v, HasContent)
      line(i) == int_str(i) \o <<") ">> \o Label(RawRole(kept[i])) \o <<": ">>
                   \o strip(RawContent(kept[i]))
  IN join_lines(<<<<"Playbook for: ">> \o r.prompt, <<"---">>, <<"Steps:">>>>
                \o [i \in 1..Len(kept) |-> line(i)])

\* C23 as stated: the text is the header and one line per entry with
\* non-blank content, in input order, numbered 1, 2, 3, ..., labelled by
\* the role table, any other role written verbatim.
C23_LinesLabelledByRawRole ==
  render.pc = "done" => render.text = ExpectedText(render, StatedLabel)

\* C23: the text is the header (the line naming the prompt, "---" and
\* "Steps:") and one line per entry that is an object with non-blank
\* content, in input order, numbered 1, 2, 3, ... without gaps; entries with
\* blank content add no line and take no number; the label is looked up for
\* the role with its surrounding whitespace removed, an empty or missing role
\* is labelled "unknown", and a role outside the table is written trimmed.
C23_LinesLabelledByTrimmedRole ==
  render.pc = "done" => render.text = ExpectedText(render, TrimmedLabel)

\* A padded user role, an entry with blank content and a padded tool
\* result: two lines, numbered 1 and 2.
C23_Witness ==
  /\ render.pc = "done"
  /\ render.history_sequence
       = JList(<<HistoryItem(<<" ", "user", " ">>, <<"go">>),
                 HistoryItem(<<"assistant">>, <<" ">>),
                 HistoryItem(<<"tool">>, <<" ", "ok", " ">>)>>)
  /\ render.text
       = <<"Playbook for: ", "deploy", "\n", "---", "\n", "Steps:", "\n",
           "1", ") ", "User prompt", ": ", "go", "\n",
           "2", ") ", "Tool returned", ": ", "ok">>

----------------------------------------------------------------------------
(* Properties of the health probe *)

ReportsServing(h) == h.status \in {HttpOk, "SERVING"}

ReportsNotServing(h) == h.status \in {HttpUnavailable, "NOT_SERVING"}

\* C24: a health probe reports not-serving when the vector backend is
\* unreachable or when the session storage is unreachable, and serving only
\* when both are reachable; and the step that serves a probe leaves every
\* session row and every document of every knowledge base as it was.
C24_HealthProbeReportsAndPreserves ==
  /\ [](health.pc = "done"
          => /\ ~health.chroma_up \/ ~health.sqlite_up
                  => ReportsNotServing(health)
             /\ health.chroma_up /\ health.sqlite_up => ReportsServing(health)
             /\ ~(ReportsServing(health) /\ ReportsNotServing(health)))
  /\ [][health.pc = "idle" /\ health'.pc = "done"
          => chroma' = chroma /\ sessions' = sessions]_vars

\* With a session row stored, a probe found Chroma reachable and the
\* session database not, and answered 503 with the reason.
C24_Witness ==
  /\ health.pc = "done"
  /\ health.probe = "http"
  /\ health.chroma_up
  /\ ~health.sqlite_up
  /\ health.status = "503"
  /\ health.detail[1] = "sqlite_unhealthy: "
  /\ Len(sessions) >= 1
  /\ Len(chroma["Body-KB"]) = 3

----------------------------------------------------------------------------
(* Properties of concurrent runs *)

Mentions(text, c) ==
  \E i \in 1..(Len(text) - 1) : text[i] = "@" /\ text[i + 1] = Digit(c)

\* All the text of one transcript entry.
EntryText(e) ==
  IF e.type = "llm_plan" THEN e.prompt \o json_dumps(e.llm_response)
  ELSE e.tool_name \o json_dumps(e.args) \o json_dumps(e.tool_result)

RECURSIVE TranscriptText(_)
TranscriptText(h) ==
  IF h = <<>> THEN <<>> ELSE EntryText(Head(h)) \o TranscriptText(Tail(h))

\* The transcript, the working prompt and, once returned, the result.
RunText(r) ==
  TranscriptText(r.history) \o r.current_prompt
  \o (IF r.pc = "returned"
      THEN TranscriptText(r.result.history) \o r.result.plan.prompt
           \o json_dumps(r.result.plan.llm_plan)
           \o json_dumps(r.result.llm_response) \o r.result.session_id.v
      ELSE <<>>)

ToolTurnsOf(h) ==
  LET IsTool(e) == e.type = "tool_result" IN SelectSeq(h, IsTool)

\* The transcript and the result of a run are made of its own calls.
MadeOfOwnCalls(r) ==
  LET plans == PlanTurnsOf(r.history)
      tools == ToolTurnsOf(r.history)
  IN /\ Len(plans) = Len(r.plan_calls)
     /\ \A k \in 1..Len(plans) :
          /\ plans[k].prompt = r.plan_calls[k].prompt
          /\ plans[k].llm_response = llm_response_of(r.plan_calls[k].outcome)
     /\ Len(tools) = Len(r.tool_calls)
     /\ \A k \in 1..Len(tools) :
          /\ tools[k].tool_name = r.tool_calls[k].tool_name
          /\ tools[k].tool_result = r.tool_calls[k].tool_result
     /\ r.pc = "returned"
          => /\ r.result.history = r.history
             /\ r.plan_calls # <<>>
             /\ r.result.llm_response
                  = llm_response_of(r.plan_calls[Len(r.plan_calls)].outcome)
             /\ r.result.plan.llm_plan
                  = dict_get(r.result.llm_response, <<"plan">>, None)

\* C25: with several runs in progress on one AgentLoop, taking their steps
\* in any order, the transcript, the working prompt and the result of a run
\* hold the plan turns and tool results of that run's own calls and no text
\* of another caller; and a step of one run changes no other run.
C25_ConcurrentRunsIsolated ==
  /\ [](\A c \in Callers :
          /\ MadeOfOwnCalls(runs[c])
          /\ \A d \in Callers \ {c} : ~Mentions(RunText(runs[c]), d))
  /\ [][\A c \in Callers :
          runs'[c] # runs[c] => \A d \in Callers \ {c} : runs'[d] = runs[d]]_vars

\* Two runs have returned after their steps were interleaved: each made
\* three plan calls and holds its own marks.
C25_Witness ==
  /\ runs[1].pc = "returned"
  /\ runs[2].pc = "returned"
  /\ Len(runs[1].plan_calls) = 3
  /\ Len(runs[2].plan_calls) = 2
  /\ Len(runs[2].tool_calls) = 1
  /\ Mentions(RunText(runs[1]), 1)
  /\ Mentions(RunText(runs[2]), 2)
  /\ Len(runs[1].history) = 6

====
